---- MODULE Spec2Model ----
(***************************************************************************)
(* The credential and session gateway of the Salesforce data browser: the  *)
(* module-level token cache (tokenCache, tokenPromise), the two            *)
(* authentication variants (JWT bearer flow and refresh-token flow), the   *)
(* bounded retry of a refresh and the 401 handling of the request          *)
(* executors.                                                              *)
(*                                                                         *)
(* A step of the model is what one resolver invocation does between two    *)
(* suspension points (an awaited network call or the one-second timer):    *)
(* JavaScript runs such a stretch, and the promise continuations it        *)
(* triggers, without interleaving.                                         *)
(***************************************************************************)
EXTENDS Integers, Sequences, FiniteSets, TLC

\* Concurrent resolver invocations (request-handling tasks).
NumTasks == 2
\* The clock runs from 0 to MaxTime.
MaxTime == 2
\* 55 * 60 * 1000 ms, in clock units of 27.5 minutes.
ValidityWindow == 2
\* reauthenticate(retries = 2), refreshAccessToken(retries = 2)
DefaultRetries == 2

Tasks == 1..NumTasks
Variants == {"jwt", "rt"}

JwtFields ==
    <<"SALESFORCE_CLIENT_ID", "SALESFORCE_USERNAME", "SALESFORCE_JWT_PRIVATE_KEY">>
RtFields ==
    <<"SALESFORCE_CLIENT_ID", "SALESFORCE_CLIENT_SECRET", "SALESFORCE_REFRESH_TOKEN">>

Range(s) == {s[i] : i \in 1..Len(s)}

VARIABLES
    variant,       \* which backend is deployed: "jwt" or "rt"
    env,           \* the names of process.env that are set
    now,           \* Date.now()
    tokenCache,    \* let tokenCache
    tokenPromise,  \* let tokenPromise: 0 (null) or the task that owns the refresh
    tasks,         \* the resolver invocations in progress
    lastCached,    \* history: the last entry written, unless a 401 or a disconnect cleared it
    cacheOld,      \* history: the entry comes from a request sent before a disconnect
    ev,            \* history: what the last step did to each invocation it touched
    request,       \* history: the payload the last step received and the query it built
    ui             \* the components of the front end and their invocations under way

vars == <<variant, env, now, tokenCache, tokenPromise, tasks, lastCached, cacheOld, ev,
          request, ui>>

----------------------------------------------------------------------------
\* Values

NoCache == [access_token |-> 0, instance_url |-> 0, expiresAt |-> 0]
NoAuth == [access_token |-> 0, instance_url |-> 0]
NoErr == [kind |-> "none", status |-> 0, marker |-> FALSE, attempt |-> 0, fields |-> <<>>]

\* What the token endpoint can answer: a token, a non-success HTTP response
\* (whose body may hold the marker "retry your request"), a rejected fetch,
\* or a body response.json() cannot parse.
AuthResponses ==
    {[kind |-> "ok", status |-> 200, marker |-> FALSE]}
    \cup [kind : {"http"}, status : {400, 500}, marker : BOOLEAN]
    \cup {[kind |-> "network", status |-> 0, marker |-> FALSE],
          [kind |-> "malformed", status |-> 200, marker |-> FALSE]}

\* What a data endpoint can answer.
DataResponses == {200, 401, 500}

\* The arguments of executePardotRequest(path, method = "GET", body = null); a
\* body of null is "none".
NoArgs == [path |-> "", method |-> "", body |-> "none"]
PardotPath == "/api/v5/objects/prospects"
Methods == {"GET", "POST"}
Bodies == {"none", "email=a"}
DefaultPardotArgs == [path |-> PardotPath, method |-> "GET", body |-> "none"]

\* A data request as api.fetch gets it: the base of the URL and the token, and
\* the rest (its shape): method, path and query, body, Content-Type and whether
\* the Pardot-Business-Unit-Id header is there.
NoShape == [method |-> "", path |-> "", body |-> "none", contentType |-> "", buid |-> FALSE]
NoSent == [base |-> 0, token |-> 0, shape |-> NoShape]

\* A resolver invocation: where it is suspended (pc), what it runs (op), its
\* first or second data request (phase), the refresh it awaits (waitOn), the
\* token it holds (auth) and what it returns (result, err); for the owner of a
\* refresh, the state of reauthenticate / refreshAccessToken (rstate, retries).
\* The other fields are history, kept for the properties:
\*   tries       calls of reauthenticate / refreshAccessToken by this refresh
\*   calls       requests this task has sent to the token endpoint
\*   credChecks  calls of getJwtCredentials by this task
\*   pauses      one-second pauses taken by this refresh
\*   old         the request in flight was sent before a disconnect
\*   joinedOld   the request of the refresh joined was in flight at a disconnect
\*               that preceded the call, and is still the one awaited
\*   invals      times the executor has set tokenCache = null
\*   reauths     refreshes it has awaited after that (its own or one in flight)
\*   dataCalls   data requests it has sent
\*   first401    its first data request was answered 401
\*   first       the method, path, body and headers of its first data request
\* and, describing the step just taken only (see Normal):
\*   pauseCause  the error that led to the pause just begun
\*   incomplete  the request just sent was built with a credential unset
\*   servedOld   the token just received comes from a request sent before a
\*               disconnect that preceded the call
\*   from        the owner of the refresh whose outcome was just received
\*   callKind    how getSalesforceAccessToken just answered: "hit", "join", "own"
\*   sawValid    tokenCache held an unexpired entry at that call
\*   sawLast     lastCached was "fresh" or "expired" at that call
\*   sent        the data request just sent
IdleTask ==
    [pc |-> "idle", op |-> "none", args |-> NoArgs, phase |-> 0, waitOn |-> 0,
     auth |-> NoAuth,
     result |-> "none", err |-> NoErr,
     rstate |-> "none", retries |-> 0,
     tries |-> 0, calls |-> 0, credChecks |-> 0, pauses |-> 0,
     old |-> FALSE, joinedOld |-> FALSE,
     invals |-> 0, reauths |-> 0, dataCalls |-> 0, first401 |-> FALSE,
     pauseCause |-> NoErr, incomplete |-> FALSE, servedOld |-> FALSE, from |-> 0,
     callKind |-> "none", sawValid |-> FALSE, sawLast |-> "none",
     first |-> NoShape, sent |-> NoSent]

\* An invocation that has returned leaves its task free for the next one, the
\* fields that describe one step do not outlive it, and the history of a
\* refresh ends when its promise has settled.
Normal(r) ==
    IF r.pc = "done"
    THEN IdleTask
    ELSE LET settled == r.rstate = "none" /\ r.pc # "loginFetch" IN
         [r EXCEPT !.pauseCause = NoErr, !.incomplete = FALSE, !.servedOld = FALSE,
                   !.from = 0, !.callKind = "none", !.sawValid = FALSE,
                   !.sawLast = "none", !.sent = NoSent,
                   !.tries = IF settled THEN 0 ELSE @,
                   !.calls = IF settled THEN 0 ELSE @,
                   !.credChecks = IF settled THEN 0 ELSE @,
                   !.pauses = IF settled THEN 0 ELSE @]

NoEvent == [t \in {} |-> IdleTask]

\* No querySalesforce / searchSalesforceAccounts payload was handled by the step.
NoRequest ==
    [resolver |-> "none", task |-> 0, objectType |-> "", search |-> <<>>,
     filters |-> <<>>, limit |-> 0, offset |-> 0, soql |-> <<>>]

----------------------------------------------------------------------------
\* The front end. An invocation made through invoke() runs as one of the
\* tasks; calls[t] tells which component awaits task t and, once the resolver
\* has returned, what it returned, until the continuation of the await (or
\* the then / catch handler) has run.

\* The arguments of fetchRecords(search, filters, pageNum).
NoQuery == [search |-> "", filters |-> <<>>, page |-> -1]

NoCall ==
    [by |-> "none", run |-> 0, resolver |-> "", objectType |-> "", query |-> NoQuery,
     outcome |-> "none", cancelled |-> FALSE]

\* History, describing the step just taken only: the invocation it issued
\* (invoked) and the invocation whose continuation it ran (settled).
NoInvoke == [by |-> "none", run |-> 0, resolver |-> ""]

\* ObjectBrowser unmounted.
NoBrowser ==
    [mounted |-> FALSE, objectType |-> "", records |-> NoQuery, totalSize |-> NoQuery, page |-> 0,
     loading |-> FALSE, error |-> NoQuery, currentSearch |-> "", currentFilters |-> <<>>]

\* Runs of an effect (useEffect) a component makes in its life.
MaxRuns == 3

\* A run of an effect: its `cancelled` flag, and what its closure holds
\* besides: the timer and the search term (SalesforceAccountField), the object
\* type, the place of the loop and `results` (FilterBar).
NoEffect ==
    [by |-> "none", cancelled |-> FALSE, timer |-> "none", term |-> "",
     objectType |-> "", i |-> 0, results |-> {}]

\* FilterBar unmounted. The picklist options are the fields that have values.
NoBar ==
    [mounted |-> FALSE, objectType |-> "", picklistOptions |-> {},
     loadingPicklists |-> FALSE, run |-> 0]

\* SalesforceAccountField unmounted. The options are named by the search term
\* they were found for ("none": the empty list); run is the latest run of the
\* effect.
NoField ==
    [mounted |-> FALSE, mode |-> "", search |-> "", options |-> "none",
     loading |-> FALSE, error |-> FALSE, run |-> 0]

\* App as useState initialises it, before it mounts. connected is "null" while
\* the connection is checked; metadata is held as the set of object types it
\* has an entry for (null: none), which is all App reads of it.
NoApp ==
    [mounted |-> FALSE, connected |-> "null", activeTab |-> "", metadata |-> {},
     availableObjects |-> <<>>, loading |-> TRUE, error |-> "none"]

NoUi ==
    [calls |-> [t \in Tasks |-> NoCall], invoked |-> NoInvoke, settled |-> NoInvoke,
     effects |-> [k \in 1..MaxRuns |-> NoEffect],
     browser |-> NoBrowser, field |-> NoField, bar |-> NoBar, app |-> NoApp]

\* The resolver run by task t has returned: invoke() resolves with its result.
Delivered(u, e) ==
    [u EXCEPT !.calls = [t \in Tasks |->
                            IF u.calls[t].outcome = "pending" /\ t \in DOMAIN e
                                   /\ e[t].pc = "done"
                            THEN [u.calls[t] EXCEPT !.outcome = e[t].result]
                            ELSE u.calls[t]],
              !.invoked = NoInvoke,
              !.settled = NoInvoke]

----------------------------------------------------------------------------
RequiredFields(v) == IF v = "jwt" THEN JwtFields ELSE RtFields

\* getJwtCredentials: the names pushed to `missing`, in the order of the code.
getJwtCredentials(e) == SelectSeq(JwtFields, LAMBDA f : f \notin e)

MissingCredentials(missing) ==
    [kind |-> "MissingCredentials", status |-> 0, marker |-> FALSE, attempt |-> 0,
     fields |-> missing]

\* The Error thrown for an answer of the token endpoint to the n-th try of a
\* refresh (or to loginToSalesforce, n = 1).
AuthError(resp, n) ==
    [kind |-> IF resp.kind = "http" THEN "AuthEndpointError"
              ELSE IF resp.kind = "network" THEN "NetworkError"
              ELSE "MalformedResponse",
     status |-> resp.status, marker |-> resp.marker, attempt |-> n, fields |-> <<>>]

UpstreamError(status) ==
    [kind |-> "UpstreamError", status |-> status, marker |-> FALSE, attempt |-> 0,
     fields |-> <<>>]

\* A failure is transient when it is an HTTP 400 whose body holds the marker.
IsTransient(e) == e.kind = "AuthEndpointError" /\ e.status = 400 /\ e.marker

----------------------------------------------------------------------------
\* Token identities: the smallest number no cache entry and no task refers to.

UsedTokens(cache, ts) ==
    {cache.access_token} \cup {ts[t].auth.access_token : t \in Tasks}

FreshToken(cache, ts) ==
    CHOOSE k \in 1..(NumTasks + 2) :
        /\ k \notin UsedTokens(cache, ts)
        /\ \A j \in 1..(k - 1) : j \in UsedTokens(cache, ts)

----------------------------------------------------------------------------
\* The shared state an operation reads and writes, as one value:
\* cache = tokenCache, promise = tokenPromise, tasks, and the history
\* last = lastCached, cold = cacheOld.

\* Variants of the definitions below, each changed the way a slip in the code
\* would change it.
CacheValidInclusive(cache) == cache # NoCache /\ now <= cache.expiresAt
RefreshInFlightIgnored(promise) == FALSE
ShouldRetryOnceMore(v, retries, err) ==
    IF v = "jwt"
    THEN retries >= 0
    ELSE retries >= 0 /\ err.kind = "AuthEndpointError" /\ err.status = 400 /\ err.marker
RetriesOn401Always(v, op, phase) == v = "jwt" /\ op \in {"query", "pardot"}
CacheValidWhateverAge(cache) == cache # NoCache
PromiseKeptAfterSettling(o) == o
IsUnauthorizedOrFailed(status) == status # 200
ErrorResultAsEmptyList(op) == "ok"
NewEntryKeepingUrl(tok) ==
    [access_token |-> tok, instance_url |-> tokenCache.instance_url,
     expiresAt |-> now + ValidityWindow]
InvalidatedKeepingEntry(cache) == cache
MayUpdateAlways(effect) == TRUE
NewEntryExpiringNow(tok) ==
    [access_token |-> tok, instance_url |-> tok, expiresAt |-> now]
HasCredentialsWithoutKey(e) ==
    "SALESFORCE_USERNAME" \in e /\ "SALESFORCE_CLIENT_ID" \in e
ConfiguredWhateverTheAnswer(check) == TRUE

\* getSalesforceAccessToken: `tokenCache && Date.now() < tokenCache.expiresAt`
CacheValid(cache) == cache # NoCache /\ now < cache.expiresAt

\* getSalesforceAccessToken: `if (tokenPromise) return tokenPromise`
RefreshInFlight(promise) == promise # 0

\* getSalesforceAccessToken: `finally { tokenPromise = null }`, run by the owner
\* o as soon as its promise has settled.
PromiseAfterSettling(o) == 0

\* executeSalesforceQuery: `if (resp.status === 401)`
IsUnauthorized(status) == status = 401

\* reauthenticate's catch retries while retries > 0, whatever the error;
\* refreshAccessToken retries while retries > 0 on a 400 with the marker.
ShouldRetry(v, retries, err) ==
    IF v = "jwt"
    THEN retries > 0
    ELSE retries > 0 /\ err.kind = "AuthEndpointError" /\ err.status = 400 /\ err.marker

\* reauthenticate sets tokenCache = null before it rethrows;
\* refreshAccessToken throws and leaves tokenCache alone.
ClearsCacheOnFailure(v) == v = "jwt"

\* The 401 branch of executeSalesforceQuery and executePardotRequest (JWT
\* variant), taken for the first response only.
RetriesOn401(v, op, phase) == v = "jwt" /\ op \in {"query", "pardot"} /\ phase = 1

\* getBusinessUnitId: process.env.SALESFORCE_BUSINESS_UNIT_ID || null
BusinessUnitVariable == "SALESFORCE_BUSINESS_UNIT_ID"
getBusinessUnitId(e) == BusinessUnitVariable \in e

\* getPardotBaseUrl, and the instance_url that came with the token.
PardotBaseUrl == "https://pi.pardot.com"
InstanceUrl(auth) == auth.instance_url

\* buildSalesforceHeaders(includePardotBuid): the headers next to the bearer
\* token.
buildSalesforceHeaders(includePardotBuid, e) ==
    [contentType |-> "application/json",
     buid |-> includePardotBuid /\ getBusinessUnitId(e)]

\* The path and query of the requests of the executors of SOQL and of
\* getPicklistValues.
DataPath(op) ==
    IF op = "picklist" THEN "/services/data/v60.0/sobjects/describe"
    ELSE "/services/data/v60.0/query?q=soql"

\* A variant of RetryRequest that leaves the options of the reissued Pardot
\* request as buildSalesforceHeaders returned them.
RetryRequestWithoutBody(op, args, auth, e) ==
    IF op = "pardot"
    THEN LET headers == buildSalesforceHeaders(TRUE, e) IN
         [base |-> PardotBaseUrl, token |-> auth.access_token,
          shape |-> [method |-> args.method, path |-> args.path, body |-> "none",
                     contentType |-> headers.contentType, buid |-> headers.buid]]
    ELSE LET headers == buildSalesforceHeaders(FALSE, e) IN
         [base |-> InstanceUrl(auth), token |-> auth.access_token,
          shape |-> [method |-> "GET", path |-> DataPath(op), body |-> "none",
                     contentType |-> headers.contentType, buid |-> headers.buid]]

\* The first request of executePardotRequest (`options`), of
\* executeSalesforceQuery and of getPicklistValues.
Request(op, args, auth, e) ==
    IF op = "pardot"
    THEN LET headers == buildSalesforceHeaders(TRUE, e)
             withBody == args.body # "none" /\ args.method # "GET" IN
         [base |-> PardotBaseUrl, token |-> auth.access_token,
          shape |-> [method |-> args.method, path |-> args.path,
                     body |-> IF withBody THEN args.body ELSE "none",
                     contentType |-> IF withBody THEN "application/x-www-form-urlencoded"
                                     ELSE headers.contentType,
                     buid |-> headers.buid]]
    ELSE LET headers == buildSalesforceHeaders(FALSE, e) IN
         [base |-> InstanceUrl(auth), token |-> auth.access_token,
          shape |-> [method |-> "GET", path |-> DataPath(op), body |-> "none",
                     contentType |-> headers.contentType, buid |-> headers.buid]]

\* The request reissued in the 401 branch (`retryOptions`, and the second
\* api.fetch of executeSalesforceQuery).
RetryRequest(op, args, auth, e) ==
    IF op = "pardot"
    THEN LET retry == buildSalesforceHeaders(TRUE, e)
             withBody == args.body # "none" /\ args.method # "GET" IN
         [base |-> PardotBaseUrl, token |-> auth.access_token,
          shape |-> [method |-> args.method, path |-> args.path,
                     body |-> IF withBody THEN args.body ELSE "none",
                     contentType |-> IF withBody THEN "application/x-www-form-urlencoded"
                                     ELSE retry.contentType,
                     buid |-> retry.buid]]
    ELSE LET retry == buildSalesforceHeaders(FALSE, e) IN
         [base |-> InstanceUrl(auth), token |-> auth.access_token,
          shape |-> [method |-> "GET", path |-> DataPath(op), body |-> "none",
                     contentType |-> retry.contentType, buid |-> retry.buid]]

\* buildSalesforceHeaders returned: the caller issues its data request.
IssueData(r, auth, servedOld) ==
    LET req == IF r.phase <= 1 THEN Request(r.op, r.args, auth, env)
               ELSE RetryRequest(r.op, r.args, auth, env) IN
    [r EXCEPT !.pc = "dataCall", !.auth = auth, !.waitOn = 0,
              !.dataCalls = @ + 1, !.servedOld = servedOld, !.joinedOld = FALSE,
              !.old = FALSE, !.rstate = "none", !.retries = 0,
              !.sent = req, !.first = IF r.phase <= 1 THEN req.shape ELSE @]

\* What the caller of the resolver gets when its body throws:
\* `catch (error) { return { error: true, message: error.message } }`
ErrorResult(op) == "error"

\* The invocation ends with an error (thrown, or returned as {error: true}).
Fail(r, err) ==
    [r EXCEPT !.pc = "done", !.result = ErrorResult(r.op), !.err = err, !.waitOn = 0,
              !.auth = NoAuth, !.rstate = "none", !.retries = 0,
              !.old = FALSE, !.joinedOld = FALSE]

\* The invocation ends with a result.
Succeed(r) ==
    [r EXCEPT !.pc = "done", !.result = "ok", !.waitOn = 0, !.auth = NoAuth,
              !.old = FALSE]

\* A variant of Deliver in which only the caller that started the refresh
\* continues.
DeliverToOwnerOnly(ts, o, ok, auth, err) ==
    [u \in Tasks |->
        IF u = o /\ ts[u].pc = "awaitToken" /\ ts[u].waitOn = o
        THEN IF ok THEN IssueData([ts[u] EXCEPT !.from = o], auth, ts[u].joinedOld)
                   ELSE Fail([ts[u] EXCEPT !.from = o], err)
        ELSE ts[u]]

\* The promise of the refresh owned by o settles: every caller awaiting it
\* continues with the same value or the same error.
Deliver(ts, o, ok, auth, err) ==
    [u \in Tasks |->
        IF ts[u].pc = "awaitToken" /\ ts[u].waitOn = o
        THEN IF ok THEN IssueData([ts[u] EXCEPT !.from = o], auth, ts[u].joinedOld)
                   ELSE Fail([ts[u] EXCEPT !.from = o], err)
        ELSE ts[u]]

\* A try of the refresh owned by o failed with err.
AttemptFailed(st, o, retries, err) ==
    IF ShouldRetry(variant, retries, err)
    THEN \* await new Promise(r => setTimeout(r, 1000))
         [st EXCEPT !.promise = o,
                    !.tasks[o].rstate = "sleep",
                    !.tasks[o].retries = retries,
                    !.tasks[o].old = FALSE,
                    !.tasks[o].pauses = @ + 1,
                    !.tasks[o].pauseCause = err]
    ELSE \* throw: the promise rejects, the owner's finally resets tokenPromise
         [st EXCEPT !.cache = IF ClearsCacheOnFailure(variant) THEN NoCache ELSE @,
                    !.cold = IF ClearsCacheOnFailure(variant) THEN FALSE ELSE @,
                    !.promise = PromiseAfterSettling(o),
                    !.tasks = Deliver(st.tasks, o, FALSE, NoAuth, err)]

\* A variant of BeginAttempt that loads the credentials for the first try of a
\* refresh only and keeps them for the retries.
BeginAttemptRetainingCredentials(st, o, retries) ==
    LET missing == IF st.tasks[o].tries > 0 THEN <<>> ELSE getJwtCredentials(env)
        begun == [st EXCEPT !.tasks[o].tries = @ + 1,
                            !.tasks[o].credChecks = IF variant = "jwt" THEN @ + 1 ELSE @] IN
    IF variant = "jwt" /\ missing # <<>>
    THEN AttemptFailed(begun, o, retries, MissingCredentials(missing))
    ELSE [begun EXCEPT !.promise = o,
                       !.tasks[o].rstate = "fetch",
                       !.tasks[o].retries = retries,
                       !.tasks[o].calls = @ + 1,
                       !.tasks[o].old = FALSE,
                       !.tasks[o].incomplete = FALSE]

\* reauthenticate(retries) / refreshAccessToken(retries) up to its first await:
\* the JWT variant loads the credentials and throws when one is missing, the
\* refresh-token variant reads process.env without a check; then api.fetch.
BeginAttempt(st, o, retries) ==
    LET missing == getJwtCredentials(env)
        fresh == [u \in Tasks |->
                    IF st.tasks[u].pc = "awaitToken" /\ st.tasks[u].waitOn = o
                    THEN [st.tasks[u] EXCEPT !.joinedOld = FALSE]
                    ELSE st.tasks[u]]
        begun == [st EXCEPT !.tasks = [fresh EXCEPT
                                ![o].tries = @ + 1,
                                ![o].credChecks = IF variant = "jwt" THEN @ + 1 ELSE @]] IN
    IF variant = "jwt" /\ missing # <<>>
    THEN AttemptFailed(begun, o, retries, MissingCredentials(missing))
    ELSE [begun EXCEPT !.promise = o,
                       !.tasks[o].rstate = "fetch",
                       !.tasks[o].retries = retries,
                       !.tasks[o].calls = @ + 1,
                       !.tasks[o].old = FALSE,
                       !.tasks[o].incomplete = (Range(RequiredFields(variant)) \ env # {})]

\* getSalesforceAccessToken called by t (through buildSalesforceHeaders).
AcquireToken(st, t) ==
    LET seen == [st EXCEPT !.tasks[t].sawValid =
                               (st.cache # NoCache /\ now < st.cache.expiresAt),
                           !.tasks[t].sawLast =
                               IF st.last = NoCache THEN "none"
                               ELSE IF now < st.last.expiresAt THEN "fresh"
                               ELSE "expired"] IN
    IF CacheValid(st.cache)
    THEN [seen EXCEPT !.tasks[t] =
            IssueData([@ EXCEPT !.callKind = "hit"],
                      [access_token |-> st.cache.access_token,
                       instance_url |-> st.cache.instance_url],
                      st.cold)]
    ELSE IF RefreshInFlight(st.promise)
    THEN [seen EXCEPT !.tasks[t].pc = "awaitToken",
                      !.tasks[t].waitOn = st.promise,
                      !.tasks[t].callKind = "join",
                      !.tasks[t].reauths = IF st.tasks[t].phase > 1 THEN @ + 1 ELSE @,
                      !.tasks[t].joinedOld = st.tasks[st.promise].old]
    ELSE BeginAttempt([seen EXCEPT !.tasks[t].pc = "awaitToken",
                                   !.tasks[t].waitOn = t,
                                   !.tasks[t].callKind = "own",
                                   !.tasks[t].reauths = IF st.tasks[t].phase > 1 THEN @ + 1 ELSE @,
                                   !.tasks[t].joinedOld = FALSE],
                      t, DefaultRetries)

State == [cache |-> tokenCache, promise |-> tokenPromise, tasks |-> tasks,
          last |-> lastCached, cold |-> cacheOld]

Apply(st) ==
    /\ tokenCache' = st.cache
    /\ tokenPromise' = st.promise
    /\ tasks' = [t \in Tasks |-> Normal(st.tasks[t])]
    /\ lastCached' = st.last
    /\ cacheOld' = st.cold
    /\ ev' = [t \in {u \in Tasks : st.tasks[u] # tasks[u]} |-> st.tasks[t]]

----------------------------------------------------------------------------
\* Actions

\* The resolvers and executors each backend defines.
Ops(v) == IF v = "jwt" THEN {"query", "picklist", "pardot", "login"}
                       ELSE {"query", "picklist"}

Init ==
    /\ variant \in Variants
    /\ env = Range(RequiredFields(variant))
    /\ now = 0
    /\ tokenCache = NoCache
    /\ tokenPromise = 0
    /\ tasks = [t \in Tasks |-> IdleTask]
    /\ lastCached = NoCache
    /\ cacheOld = FALSE
    /\ ev = NoEvent
    /\ request = NoRequest
    /\ ui = NoUi

\* querySalesforce (executeSalesforceQuery), getPicklistValues and
\* executePardotRequest begin: they ask for the token.
StartData(t, op) ==
    /\ tasks[t].pc = "idle"
    /\ op \in Ops(variant) \ {"login"}
    /\ Apply(AcquireToken(
                [State EXCEPT !.tasks[t].op = op, !.tasks[t].phase = 1,
                              !.tasks[t].args = IF op = "pardot" THEN DefaultPardotArgs
                                                ELSE NoArgs],
                t))
    /\ request' = NoRequest
    /\ ui' = Delivered(ui, ev')
    /\ UNCHANGED <<variant, env, now>>

\* loginToSalesforce begins: authenticateWithJwt up to its api.fetch.
loginToSalesforce(t) ==
    LET missing == getJwtCredentials(env)
        r == [tasks[t] EXCEPT !.op = "login", !.credChecks = 1] IN
    [State EXCEPT !.tasks[t] =
        IF missing # <<>>
        THEN Fail(r, MissingCredentials(missing))
        ELSE [r EXCEPT !.pc = "loginFetch", !.calls = 1,
                       !.incomplete = (Range(RequiredFields(variant)) \ env # {})]]

StartLogin(t) ==
    /\ tasks[t].pc = "idle"
    /\ "login" \in Ops(variant)
    /\ Apply(loginToSalesforce(t))
    /\ request' = NoRequest
    /\ ui' = Delivered(ui, ev')
    /\ UNCHANGED <<variant, env, now>>

\* The cache entry written from a successful answer of the token endpoint.
NewEntry(tok) ==
    [access_token |-> tok, instance_url |-> tok, expiresAt |-> now + ValidityWindow]

\* The token endpoint answers loginToSalesforce.
LoginResponse(t, resp) ==
    /\ tasks[t].pc = "loginFetch"
    /\ resp \in AuthResponses
    /\ IF resp.kind = "ok"
       THEN LET tok == FreshToken(tokenCache, tasks) IN
            Apply([State EXCEPT !.cache = NewEntry(tok),
                                !.last = NewEntry(tok),
                                !.cold = tasks[t].old,
                                !.tasks[t] = Succeed(@)])
       ELSE Apply([State EXCEPT !.tasks[t] = Fail(@, AuthError(resp, 1))])
    /\ request' = NoRequest
    /\ ui' = Delivered(ui, ev')
    /\ UNCHANGED <<variant, env, now>>

\* The token endpoint answers the refresh owned by o.
AuthResponse(o, resp) ==
    /\ tasks[o].rstate = "fetch"
    /\ resp \in AuthResponses
    /\ IF resp.kind = "ok"
       THEN LET tok == FreshToken(tokenCache, tasks) IN
            Apply([State EXCEPT
                     !.cache = NewEntry(tok),
                     !.last = NewEntry(tok),
                     !.cold = tasks[o].old,
                     !.promise = PromiseAfterSettling(o),
                     !.tasks = Deliver(tasks, o, TRUE,
                                       [access_token |-> tok, instance_url |-> tok],
                                       NoErr)])
       ELSE Apply(AttemptFailed(State, o, tasks[o].retries,
                                AuthError(resp, tasks[o].tries)))
    /\ request' = NoRequest
    /\ ui' = Delivered(ui, ev')
    /\ UNCHANGED <<variant, env, now>>

\* The one-second pause is over: reauthenticate(retries - 1).
RetryTimer(o) ==
    /\ tasks[o].rstate = "sleep"
    /\ Apply(BeginAttempt(State, o, tasks[o].retries - 1))
    /\ request' = NoRequest
    /\ ui' = Delivered(ui, ev')
    /\ UNCHANGED <<variant, env, now>>

\* executeSalesforceQuery / executePardotRequest on a 401: `tokenCache = null`
Invalidated(cache) == NoCache

\* A data endpoint answers t's request.
DataResponse(t, status) ==
    /\ tasks[t].pc = "dataCall"
    /\ status \in DataResponses
    /\ LET r == [tasks[t] EXCEPT
                    !.first401 = IF tasks[t].phase = 1 THEN status = 401 ELSE @] IN
       IF status = 200
       THEN Apply([State EXCEPT !.tasks[t] = Succeed(r)])
       ELSE IF IsUnauthorized(status) /\ RetriesOn401(variant, r.op, r.phase)
       THEN \* tokenCache = null; const retry = await buildSalesforceHeaders()
            Apply(AcquireToken(
                    [State EXCEPT !.cache = Invalidated(tokenCache),
                                  !.last = NoCache, !.cold = FALSE,
                                  !.tasks[t] = [r EXCEPT !.phase = @ + 1,
                                                         !.invals = @ + 1,
                                                         !.auth = NoAuth]],
                    t))
       ELSE Apply([State EXCEPT !.tasks[t] = Fail(r, UpstreamError(status))])
    /\ request' = NoRequest
    /\ ui' = Delivered(ui, ev')
    /\ UNCHANGED <<variant, env, now>>

\* disconnectSalesforce (JWT variant): tokenCache = null.
disconnectSalesforce ==
    /\ tokenCache' = NoCache
    /\ lastCached' = NoCache
    /\ cacheOld' = FALSE
    /\ tasks' = [t \in Tasks |->
                    IF tasks[t].rstate = "fetch" \/ tasks[t].pc = "loginFetch"
                    THEN [tasks[t] EXCEPT !.old = TRUE]
                    ELSE tasks[t]]
    /\ ev' = NoEvent
    /\ request' = NoRequest
    /\ UNCHANGED <<variant, env, now, tokenPromise>>

Disconnect ==
    /\ variant = "jwt"
    /\ disconnectSalesforce
    /\ ui' = Delivered(ui, ev')

\* checkSalesforceConnection: `!!process.env.SALESFORCE_USERNAME &&
\* !!process.env.SALESFORCE_CLIENT_ID && !!process.env.SALESFORCE_JWT_PRIVATE_KEY`
HasCredentials(e) ==
    "SALESFORCE_USERNAME" \in e /\ "SALESFORCE_CLIENT_ID" \in e
        /\ "SALESFORCE_JWT_PRIVATE_KEY" \in e

\* checkSalesforceConnection (JWT variant) has no await: it answers in one
\* step with { connected, instance_url }, the instance_url of the cache entry
\* or null.
checkSalesforceConnection(t) ==
    [State EXCEPT !.tasks[t] =
        [@ EXCEPT !.pc = "done", !.op = "check",
                  !.result = IF HasCredentials(env) THEN "connected"
                             ELSE "notConnected",
                  !.auth = [access_token |-> 0,
                            instance_url |-> tokenCache.instance_url]]]

CheckConnection(t) ==
    /\ variant = "jwt"
    /\ tasks[t].pc = "idle"
    /\ Apply(checkSalesforceConnection(t))
    /\ request' = NoRequest
    /\ ui' = Delivered(ui, ev')
    /\ UNCHANGED <<variant, env, now>>

\* Time passes.
Tick ==
    /\ now < MaxTime
    /\ now' = now + 1
    /\ ev' = NoEvent
    /\ request' = NoRequest
    /\ ui' = Delivered(ui, ev')
    /\ UNCHANGED <<variant, env, tokenCache, tokenPromise, tasks, lastCached, cacheOld>>

Next ==
    \/ \E t \in Tasks, op \in {"query", "picklist", "pardot"} : StartData(t, op)
    \/ \E t \in Tasks : StartLogin(t)
    \/ \E t \in Tasks, resp \in AuthResponses : LoginResponse(t, resp)
    \/ \E o \in Tasks, resp \in AuthResponses : AuthResponse(o, resp)
    \/ \E o \in Tasks : RetryTimer(o)
    \/ \E t \in Tasks, status \in DataResponses : DataResponse(t, status)
    \/ Disconnect
    \/ Tick

Spec == Init /\ [][Next]_vars

----------------------------------------------------------------------------
\* The backend with every network call answered and every timer fired in the
\* end: api.fetch settles, setTimeout calls back. The clock stands still;
\* invocations, logins and disconnects arrive as they please.

NextLive ==
    \/ \E t \in Tasks, op \in {"query", "picklist", "pardot"} : StartData(t, op)
    \/ \E t \in Tasks : StartLogin(t)
    \/ \E t \in Tasks, resp \in AuthResponses : LoginResponse(t, resp)
    \/ \E o \in Tasks, resp \in AuthResponses : AuthResponse(o, resp)
    \/ \E o \in Tasks : RetryTimer(o)
    \/ \E t \in Tasks, status \in DataResponses : DataResponse(t, status)
    \/ Disconnect

NetworkAnswers ==
    \A t \in Tasks :
        /\ WF_vars(\E resp \in AuthResponses : LoginResponse(t, resp))
        /\ WF_vars(\E resp \in AuthResponses : AuthResponse(t, resp))
        /\ WF_vars(RetryTimer(t))
        /\ WF_vars(\E status \in DataResponses : DataResponse(t, status))

SpecLive == Init /\ [][NextLive]_vars /\ NetworkAnswers

----------------------------------------------------------------------------
\* The same backend with the Forge variables varying: any of the required
\* variables may be unset at start, and variables are set and removed while
\* invocations run. The clock stands still here.

InitEnv ==
    /\ variant \in Variants
    /\ env \in SUBSET Range(RequiredFields(variant))
    /\ now = 0
    /\ tokenCache = NoCache
    /\ tokenPromise = 0
    /\ tasks = [t \in Tasks |-> IdleTask]
    /\ lastCached = NoCache
    /\ cacheOld = FALSE
    /\ ev = NoEvent
    /\ request = NoRequest
    /\ ui = NoUi

\* forge variables set / unset
SetVariable(f) ==
    /\ f \in (Range(RequiredFields(variant)) \cup {BusinessUnitVariable}) \ env
    /\ env' = env \cup {f}
    /\ ev' = NoEvent
    /\ request' = NoRequest
    /\ ui' = Delivered(ui, ev')
    /\ UNCHANGED <<variant, now, tokenCache, tokenPromise, tasks, lastCached, cacheOld>>

UnsetVariable(f) ==
    /\ f \in env
    /\ env' = env \ {f}
    /\ ev' = NoEvent
    /\ request' = NoRequest
    /\ ui' = Delivered(ui, ev')
    /\ UNCHANGED <<variant, now, tokenCache, tokenPromise, tasks, lastCached, cacheOld>>

NextEnv ==
    \/ \E t \in Tasks, op \in {"query", "picklist", "pardot"} : StartData(t, op)
    \/ \E t \in Tasks : StartLogin(t)
    \/ \E t \in Tasks, resp \in AuthResponses : LoginResponse(t, resp)
    \/ \E o \in Tasks, resp \in AuthResponses : AuthResponse(o, resp)
    \/ \E o \in Tasks : RetryTimer(o)
    \/ \E t \in Tasks, status \in DataResponses : DataResponse(t, status)
    \/ \E t \in Tasks : CheckConnection(t)
    \/ \E f \in Range(JwtFields) \cup Range(RtFields) : SetVariable(f)
    \/ \E f \in Range(JwtFields) \cup Range(RtFields) : UnsetVariable(f)

SpecEnv == InitEnv /\ [][NextEnv]_vars

----------------------------------------------------------------------------
\* The executors of the JWT backend with their arguments, and with
\* SALESFORCE_BUSINESS_UNIT_ID set or not, set and removed while requests are
\* under way. The clock stands still.

InitRequest ==
    /\ variant = "jwt"
    /\ env \in {Range(JwtFields), Range(JwtFields) \cup {BusinessUnitVariable}}
    /\ now = 0
    /\ tokenCache = NoCache
    /\ tokenPromise = 0
    /\ tasks = [t \in Tasks |-> IdleTask]
    /\ lastCached = NoCache
    /\ cacheOld = FALSE
    /\ ev = NoEvent
    /\ request = NoRequest
    /\ ui = NoUi

\* executePardotRequest(path, method, body) begins.
ExecutePardotRequest(t, method, body) ==
    /\ tasks[t].pc = "idle"
    /\ variant = "jwt"
    /\ method \in Methods /\ body \in Bodies
    /\ Apply(AcquireToken(
                [State EXCEPT !.tasks[t].op = "pardot", !.tasks[t].phase = 1,
                              !.tasks[t].args = [path |-> PardotPath, method |-> method,
                                                 body |-> body]],
                t))
    /\ request' = NoRequest
    /\ ui' = Delivered(ui, ev')
    /\ UNCHANGED <<variant, env, now>>

NextRequest ==
    \/ \E t \in Tasks, method \in Methods, body \in Bodies :
            ExecutePardotRequest(t, method, body)
    \/ \E t \in Tasks : StartData(t, "query")
    \/ \E o \in Tasks, resp \in AuthResponses : AuthResponse(o, resp)
    \/ \E o \in Tasks : RetryTimer(o)
    \/ \E t \in Tasks, status \in DataResponses : DataResponse(t, status)
    \/ SetVariable(BusinessUnitVariable)
    \/ UnsetVariable(BusinessUnitVariable)

SpecRequest == InitRequest /\ [][NextRequest]_vars

----------------------------------------------------------------------------
\* querySalesforce and searchSalesforceAccounts up to their call of
\* executeSalesforceQuery. A string is the sequence of its characters; a query
\* is the sequence of the pieces the template literals put together, the
\* characters of an interpolated value one by one.

\* The length of the search terms tried.
MaxStringLen == 2

\* A letter, the quote and the backslash.
Chars == {"a", "'", "\\"}
Strings == UNION {[1..k -> Chars] : k \in 0..MaxStringLen}
FilterValues == {<<>>, <<"a">>, <<"'">>}
FilterFields == {"Industry", "Type"}

OBJECT_CONFIG ==
    [Account |->
        [kind |-> "config",
         fields |-> <<"Id", "Name", "Industry", "Type", "Phone">>,
         searchField |-> "Name",
         filterFields |-> <<[field |-> "Industry", type |-> "picklist"],
                            [field |-> "Type", type |-> "picklist"]>>],
     Contact |->
        [kind |-> "config",
         fields |-> <<"Id", "FirstName", "LastName", "Email", "Phone", "Account.Name">>,
         searchField |-> "LastName",
         filterFields |-> <<>>],
     Opportunity |->
        [kind |-> "config",
         fields |-> <<"Id", "Name", "StageName", "Amount", "CloseDate", "Account.Name">>,
         searchField |-> "Name",
         filterFields |-> <<[field |-> "StageName", type |-> "picklist"]>>]]

\* Names every object literal inherits from Object.prototype.
ObjectPrototypeNames == {"constructor", "toString", "hasOwnProperty"}

\* `OBJECT_CONFIG[objectType]`: the configured entry, a member of
\* Object.prototype (truthy, without fields or searchField), or undefined.
Lookup(objectType) ==
    IF objectType \in DOMAIN OBJECT_CONFIG THEN OBJECT_CONFIG[objectType]
    ELSE IF objectType \in ObjectPrototypeNames
    THEN [kind |-> "inherited", fields |-> <<>>, searchField |-> "undefined"]
    ELSE [kind |-> "undefined", fields |-> <<>>, searchField |-> "undefined"]

\* The payloads tried: objectType, search, filters (the entries of the object
\* in insertion order), limit and offset.
FilterEntries == [field : FilterFields, value : FilterValues]
Filters ==
    {<<>>}
    \cup {<<e>> : e \in [field : {"Industry"}, value : FilterValues]}
    \cup {fs \in {<<e, f>> : e \in FilterEntries, f \in FilterEntries} :
            fs[1].field = "Type" /\ fs[2].field = "Industry"}

Payloads ==
    [objectType : {"Account", "Contact"},
     search : Strings, filters : Filters, limit : {50}, offset : {0, 50}]
    \cup [objectType : {"Lead", "constructor"},
          search : {<<>>, <<"a">>}, filters : {<<>>}, limit : {50}, offset : {0}]

UnsupportedObject(objectType) ==
    [kind |-> "UnsupportedObject", status |-> 0, marker |-> FALSE, attempt |-> 0,
     fields |-> <<objectType>>]

\* `config.fields.join` with config.fields undefined.
TypeError ==
    [kind |-> "TypeError", status |-> 0, marker |-> FALSE, attempt |-> 0,
     fields |-> <<>>]

\* Variant of FilterClauses below that does not skip the empty values.
RECURSIVE FilterClausesForAll(_)
FilterClausesForAll(filters) ==
    IF filters = <<>> THEN <<>>
    ELSE << <<Head(filters).field, "=", "'">> \o Head(filters).value \o <<"'">> >>
         \o FilterClausesForAll(Tail(filters))

\* `s.replace(/'/g, "\\'")`: a backslash is put before every quote.
RECURSIVE Escape(_)
Escape(s) ==
    IF s = <<>> THEN <<>>
    ELSE (IF Head(s) = "'" THEN <<"\\", "'">> ELSE <<Head(s)>>) \o Escape(Tail(s))

\* Array.prototype.join
RECURSIVE Join(_, _)
Join(parts, sep) ==
    IF parts = <<>> THEN <<>>
    ELSE IF Len(parts) = 1 THEN parts[1]
    ELSE parts[1] \o <<sep>> \o Join(Tail(parts), sep)

\* `${config.searchField} LIKE '%${search.replace(...)}%'`
LikeClause(searchField, search) ==
    <<searchField, "LIKE", "'", "%">> \o Escape(search) \o <<"%", "'">>

\* `${field} = '${String(value).replace(...)}'`
EqClause(field, value) == <<field, "=", "'">> \o Escape(value) \o <<"'">>

\* for (const [field, value] of Object.entries(filters)) if (value) where.push(...)
RECURSIVE FilterClauses(_)
FilterClauses(filters) ==
    IF filters = <<>> THEN <<>>
    ELSE (IF Head(filters).value # <<>>
          THEN <<EqClause(Head(filters).field, Head(filters).value)>>
          ELSE <<>>)
         \o FilterClauses(Tail(filters))

\* The query string querySalesforce builds.
BuildSoql(config, p) ==
    LET where == (IF p.search # <<>>
                  THEN <<LikeClause(config.searchField, p.search)>>
                  ELSE <<>>) \o FilterClauses(p.filters) IN
    <<"SELECT">> \o Join([i \in 1..Len(config.fields) |-> <<config.fields[i]>>], ",")
        \o <<"FROM", p.objectType>>
        \o (IF where # <<>> THEN <<"WHERE">> \o Join(where, "AND") ELSE <<>>)
        \o <<"ORDER BY", config.searchField, "ASC",
             "LIMIT", ToString(p.limit), "OFFSET", ToString(p.offset)>>

\* The query string searchSalesforceAccounts builds.
BuildSearchSoql(query) ==
    <<"SELECT", "Id", ",", "Name", "FROM", "Account",
      "WHERE", "Status__c", "=", "'", "Former Customer", "'">>
        \o (IF query # <<>>
            THEN <<"AND", "Name", "LIKE", "'", "%">> \o Escape(query) \o <<"%", "'">>
            ELSE <<>>)
        \o <<"ORDER BY", "Name", "LIMIT", "20">>

\* querySalesforce is invoked with payload p while no other invocation runs
\* (the first task takes it): it throws for an object type it cannot use, else
\* builds the query and calls executeSalesforceQuery, which asks for the token.
QuerySalesforce(t, p) ==
    /\ \A u \in Tasks : tasks[u].pc = "idle" /\ t <= u
    /\ p \in Payloads
    /\ LET config == Lookup(p.objectType)
           r == [tasks[t] EXCEPT !.op = "query", !.phase = 1] IN
       IF config.kind = "undefined"
       THEN /\ Apply([State EXCEPT !.tasks[t] = Fail(r, UnsupportedObject(p.objectType))])
            /\ request' = p @@ [resolver |-> "querySalesforce", task |-> t, soql |-> <<>>]
       ELSE IF config.kind = "inherited"
       THEN /\ Apply([State EXCEPT !.tasks[t] = Fail(r, TypeError)])
            /\ request' = p @@ [resolver |-> "querySalesforce", task |-> t, soql |-> <<>>]
       ELSE /\ Apply(AcquireToken([State EXCEPT !.tasks[t] = r], t))
            /\ request' = p @@ [resolver |-> "querySalesforce", task |-> t,
                                soql |-> BuildSoql(config, p)]
    /\ ui' = Delivered(ui, ev')
    /\ UNCHANGED <<variant, env, now>>

\* searchSalesforceAccounts (refresh-token variant) is invoked with payload.query.
SearchSalesforceAccounts(t, query) ==
    /\ variant = "rt"
    /\ \A u \in Tasks : tasks[u].pc = "idle" /\ t <= u
    /\ query \in Strings
    /\ Apply(AcquireToken([State EXCEPT !.tasks[t].op = "search", !.tasks[t].phase = 1], t))
    /\ request' = [NoRequest EXCEPT !.resolver = "searchSalesforceAccounts", !.task = t,
                                    !.objectType = "Account", !.search = query,
                                    !.soql = BuildSearchSoql(query)]
    /\ ui' = Delivered(ui, ev')
    /\ UNCHANGED <<variant, env, now>>

NextQuery ==
    \/ \E t \in Tasks, p \in Payloads : QuerySalesforce(t, p)
    \/ \E t \in Tasks, query \in Strings : SearchSalesforceAccounts(t, query)
    \/ \E o \in Tasks, resp \in AuthResponses : AuthResponse(o, resp)
    \/ \E o \in Tasks : RetryTimer(o)
    \/ \E t \in Tasks, status \in DataResponses : DataResponse(t, status)

SpecQuery == Init /\ [][NextQuery]_vars

----------------------------------------------------------------------------
\* invoke(resolver, payload) by a component of the front end: the resolver
\* starts as task t, the first task that is free, and runs to its first await;
\* u is the front end as the handler that invokes leaves it.

FreeTask(u, t) ==
    /\ tasks[t].pc = "idle" /\ u.calls[t] = NoCall
    /\ \A s \in 1..(t - 1) : ~(tasks[s].pc = "idle" /\ u.calls[s] = NoCall)

InvokeWith(t, st, call, u) ==
    /\ FreeTask(u, t)
    /\ Apply(st)
    /\ request' = NoRequest
    /\ ui' = [Delivered([u EXCEPT !.calls[t] = [call EXCEPT !.outcome = "pending"]], ev')
                EXCEPT !.invoked = [by |-> call.by, run |-> call.run,
                                    resolver |-> call.resolver]]
    /\ UNCHANGED <<variant, env, now>>

\* invoke() of a resolver that begins with getSalesforceAccessToken.
Invoke(t, op, resolver, by, run, query, u) ==
    InvokeWith(t, AcquireToken([State EXCEPT !.tasks[t].op = op, !.tasks[t].phase = 1], t),
               [NoCall EXCEPT !.by = by, !.run = run, !.resolver = resolver,
                              !.query = query],
               u)

\* A step of the front end alone.
BackendIdle ==
    /\ ev' = NoEvent
    /\ request' = NoRequest
    /\ UNCHANGED <<variant, env, now, tokenCache, tokenPromise, tasks, lastCached, cacheOld>>

----------------------------------------------------------------------------
\* ObjectBrowser (ObjectBrowser.js). The records and the totalSize shown are
\* named by the query whose response they came with (NoQuery: the empty list
\* and 0); the error shown is named by the query that failed (NoQuery: null).

SearchTerms == {"", "a"}
Pages == {0, 1}
Params == [search : SearchTerms, filters : {<<>>}]

\* fetchRecords(search, filters, pageNum) by the ObjectBrowser b of the front
\* end u, up to the invocation: the payload carries props.objectType.
fetchRecordsIn(t, u, b, search, filters, pageNum) ==
    InvokeWith(t, AcquireToken([State EXCEPT !.tasks[t].op = "query",
                                             !.tasks[t].phase = 1], t),
               [NoCall EXCEPT !.by = "browser", !.resolver = "querySalesforce",
                              !.objectType = b.objectType,
                              !.query = [search |-> search, filters |-> filters,
                                         page |-> pageNum]],
               [u EXCEPT !.browser = [b EXCEPT !.loading = TRUE, !.error = NoQuery]])

fetchRecords(t, b, search, filters, pageNum) ==
    fetchRecordsIn(t, ui, b, search, filters, pageNum)

\* The component mounts: useEffect(function () { fetchRecords("", {}, 0) }, [])
BrowserMount(t) ==
    /\ ~ui.browser.mounted
    /\ fetchRecords(t, [NoBrowser EXCEPT !.mounted = TRUE], "", <<>>, 0)

handleApply(t, params) ==
    /\ ui.browser.mounted
    /\ params \in Params
    /\ fetchRecords(t, [ui.browser EXCEPT !.currentSearch = params.search,
                                          !.currentFilters = params.filters,
                                          !.page = 0],
                    params.search, params.filters, 0)

handleClear(t) ==
    /\ ui.browser.mounted
    /\ fetchRecords(t, [ui.browser EXCEPT !.currentSearch = "", !.currentFilters = <<>>,
                                          !.page = 0],
                    "", <<>>, 0)

handlePageChange(t, newPage) ==
    /\ ui.browser.mounted
    /\ newPage \in Pages
    /\ fetchRecords(t, [ui.browser EXCEPT !.page = newPage],
                    ui.browser.currentSearch, ui.browser.currentFilters, newPage)

\* The then / catch handlers of fetchRecords, run when the invocation made
\* as task t has returned. The setters of an ObjectBrowser that was unmounted
\* since (cancelled) change nothing that is shown.
QuerySettled(t) ==
    LET call == ui.calls[t]
        b == ui.browser IN
    /\ call.by = "browser"
    /\ call.outcome \in {"ok", "error"}
    /\ ui' = [ui EXCEPT
                !.calls[t] = NoCall,
                !.invoked = NoInvoke,
                !.settled = [by |-> "browser", run |-> 0, resolver |-> "querySalesforce"],
                !.browser =
                    IF call.cancelled
                    THEN b
                    ELSE IF call.outcome = "ok"
                    THEN [b EXCEPT !.records = call.query, !.totalSize = call.query,
                                   !.loading = FALSE]
                    ELSE [b EXCEPT !.error = call.query, !.records = NoQuery,
                                   !.totalSize = NoQuery, !.loading = FALSE]]
    /\ BackendIdle

NextBrowser ==
    \/ \E t \in Tasks : BrowserMount(t)
    \/ \E t \in Tasks, params \in Params : handleApply(t, params)
    \/ \E t \in Tasks : handleClear(t)
    \/ \E t \in Tasks, newPage \in Pages : handlePageChange(t, newPage)
    \/ \E t \in Tasks : QuerySettled(t)
    \/ \E o \in Tasks, resp \in AuthResponses : AuthResponse(o, resp)
    \/ \E o \in Tasks : RetryTimer(o)
    \/ \E t \in Tasks, status \in DataResponses : DataResponse(t, status)

SpecBrowser == Init /\ [][NextBrowser]_vars

----------------------------------------------------------------------------
\* SalesforceAccountField (SalesforceAccountField.js), the custom field served
\* by searchSalesforceAccounts of the refresh-token backend.

Modes == {"view", "edit"}
Terms == {"", "a", "b"}

\* `if (!cancelled)` in fetchAccounts
MayUpdate(effect) == ~effect.cancelled

\* The cleanup of a run of the effect: cancelled = true; clearTimeout(timeout)
Cleanup(effect) ==
    [effect EXCEPT !.cancelled = TRUE,
                   !.timer = IF @ = "pending" THEN "cleared" ELSE @]

\* The effect runs for the search term: setTimeout(fetchAccounts, 300)
Debounce(term) ==
    [NoEffect EXCEPT !.by = "field", !.timer = "pending", !.term = term]

\* The field mounts; in view mode the effect returns at once.
FieldMount(mode) ==
    /\ ~ui.field.mounted /\ ui.field.run = 0
    /\ variant = "rt"
    /\ mode \in Modes
    /\ ui' = [ui EXCEPT
                !.invoked = NoInvoke, !.settled = NoInvoke,
                !.field = [NoField EXCEPT !.mounted = TRUE, !.mode = mode,
                                          !.run = IF mode = "view" THEN 0 ELSE 1],
                !.effects[1] = IF mode = "view" THEN @ ELSE Debounce("")]
    /\ BackendIdle

\* onChange of the input: setSearch(e.target.value); the effect is cleaned up
\* and runs again.
FieldSetSearch(term) ==
    LET f == ui.field IN
    /\ f.mounted /\ f.mode = "edit"
    /\ term \in Terms \ {f.search}
    /\ f.run < MaxRuns
    /\ ui' = [ui EXCEPT
                !.invoked = NoInvoke, !.settled = NoInvoke,
                !.field = [f EXCEPT !.search = term, !.run = @ + 1],
                !.effects = [@ EXCEPT ![f.run] = Cleanup(@),
                                      ![f.run + 1] = Debounce(term)]]
    /\ BackendIdle

\* The field unmounts: the effect is cleaned up.
FieldUnmount ==
    LET f == ui.field IN
    /\ f.mounted
    /\ ui' = [ui EXCEPT
                !.invoked = NoInvoke, !.settled = NoInvoke,
                !.field = [f EXCEPT !.mounted = FALSE],
                !.effects = IF f.run = 0 THEN @ ELSE [@ EXCEPT ![f.run] = Cleanup(@)]]
    /\ BackendIdle

\* The 300 ms are over: fetchAccounts up to its await of invoke.
fetchAccounts(k, t) ==
    /\ ui.effects[k].by = "field"
    /\ ui.effects[k].timer = "pending"
    /\ Invoke(t, "search", "searchSalesforceAccounts", "field", k, NoQuery,
              [ui EXCEPT !.effects[k].timer = "fired",
                         !.field.loading = TRUE,
                         !.field.error = FALSE])

\* fetchAccounts from its await on: the try, the catch and the finally.
AccountsSettled(t) ==
    LET call == ui.calls[t]
        effect == ui.effects[call.run]
        f == ui.field IN
    /\ call.by = "field"
    /\ call.outcome \in {"ok", "error"}
    /\ ui' = [ui EXCEPT
                !.calls[t] = NoCall,
                !.invoked = NoInvoke,
                !.settled = [by |-> "field", run |-> call.run,
                             resolver |-> "searchSalesforceAccounts"],
                !.field =
                    IF ~MayUpdate(effect) THEN f
                    ELSE IF call.outcome = "ok"
                    THEN [f EXCEPT !.options = effect.term, !.loading = FALSE]
                    ELSE [f EXCEPT !.options = "none", !.error = TRUE,
                                   !.loading = FALSE]]
    /\ BackendIdle

NextField ==
    \/ \E mode \in Modes : FieldMount(mode)
    \/ \E term \in Terms : FieldSetSearch(term)
    \/ FieldUnmount
    \/ \E k \in 1..MaxRuns, t \in Tasks : fetchAccounts(k, t)
    \/ \E t \in Tasks : AccountsSettled(t)
    \/ \E o \in Tasks, resp \in AuthResponses : AuthResponse(o, resp)
    \/ \E o \in Tasks : RetryTimer(o)
    \/ \E t \in Tasks, status \in DataResponses : DataResponse(t, status)

SpecField == Init /\ [][NextField]_vars

----------------------------------------------------------------------------
\* FilterBar (the component at the head of part_002) and its loop over the
\* picklist fields of the object type, one getPicklistValues at a time.

\* The next index from i on whose field is a picklist, or Len(ff) + 1.
NextPicklist(ff, i) ==
    IF \E j \in i..Len(ff) : ff[j].type = "picklist"
    THEN CHOOSE j \in i..Len(ff) :
            /\ ff[j].type = "picklist"
            /\ \A h \in i..(j - 1) : ff[h].type # "picklist"
    ELSE Len(ff) + 1

\* loadPicklists of run k from index i on, with `results` as they are: the
\* next getPicklistValues, or the end of the loop and `if (!cancelled)`.
loadPicklists(t, u, k, i, results) ==
    LET ff == OBJECT_CONFIG[u.effects[k].objectType].filterFields
        j == NextPicklist(ff, i) IN
    IF j <= Len(ff)
    THEN Invoke(t, "picklist", "getPicklistValues", "bar", k, NoQuery,
                [u EXCEPT !.effects[k].i = j, !.effects[k].results = results])
    ELSE /\ FreeTask(u, t)
         /\ ui' = [u EXCEPT
                     !.invoked = NoInvoke,
                     !.effects[k].i = j,
                     !.effects[k].results = results,
                     !.bar = IF u.effects[k].cancelled THEN @
                             ELSE [@ EXCEPT !.picklistOptions = results,
                                            !.loadingPicklists = FALSE]]
         /\ BackendIdle

\* The bar mounts for an object type: the effect runs.
BarMount(t, objectType) ==
    LET k == ui.bar.run + 1
        mounted == [NoBar EXCEPT !.mounted = TRUE, !.objectType = objectType,
                                 !.run = ui.bar.run] IN
    /\ ~ui.bar.mounted
    /\ ui.bar.run < MaxRuns
    /\ objectType \in DOMAIN OBJECT_CONFIG
    /\ IF OBJECT_CONFIG[objectType].filterFields = <<>>
       THEN /\ FreeTask(ui, t)
            /\ ui' = [ui EXCEPT !.invoked = NoInvoke, !.settled = NoInvoke,
                                !.bar = mounted]
            /\ BackendIdle
       ELSE loadPicklists(t,
                [ui EXCEPT !.settled = NoInvoke,
                           !.bar = [mounted EXCEPT !.run = k, !.loadingPicklists = TRUE],
                           !.effects[k] = [NoEffect EXCEPT !.by = "bar",
                                                           !.objectType = objectType]],
                k, 1, {})

\* The bar unmounts (its ObjectBrowser is replaced): cancelled = true.
BarUnmount ==
    LET b == ui.bar IN
    /\ b.mounted
    /\ ui' = [ui EXCEPT
                !.invoked = NoInvoke, !.settled = NoInvoke,
                !.bar = [b EXCEPT !.mounted = FALSE],
                !.effects = IF b.run = 0 \/ @[b.run].by # "bar" THEN @
                            ELSE [@ EXCEPT ![b.run].cancelled = TRUE]]
    /\ BackendIdle

\* loadPicklists from its await on: the values are kept unless the resolver
\* returned an error, and the loop goes on.
PicklistSettled(t, next) ==
    LET call == ui.calls[t]
        effect == ui.effects[call.run]
        ff == OBJECT_CONFIG[effect.objectType].filterFields IN
    /\ call.by = "bar"
    /\ call.outcome \in {"ok", "error"}
    /\ loadPicklists(next,
            [ui EXCEPT !.calls[t] = NoCall,
                       !.settled = [by |-> "bar", run |-> call.run,
                                    resolver |-> "getPicklistValues"]],
            call.run, effect.i + 1,
            IF call.outcome = "ok" THEN effect.results \cup {ff[effect.i].field}
            ELSE effect.results)

NextFilterBar ==
    \/ \E t \in Tasks, objectType \in DOMAIN OBJECT_CONFIG : BarMount(t, objectType)
    \/ BarUnmount
    \/ \E t \in Tasks, next \in Tasks : PicklistSettled(t, next)
    \/ \E o \in Tasks, resp \in AuthResponses : AuthResponse(o, resp)
    \/ \E o \in Tasks : RetryTimer(o)
    \/ \E t \in Tasks, status \in DataResponses : DataResponse(t, status)

SpecFilterBar == Init /\ [][NextFilterBar]_vars

----------------------------------------------------------------------------
\* App (ObjectBrowser.js), the JWT variant's front end: it checks that the
\* credentials are configured, logs in, loads the object metadata and shows
\* the browser. Its invocations are calls by "app"; the run of the metadata
\* effect a getObjectMetadata call belongs to has one call only, so the run's
\* `cancelled` flag is kept with the call.

NotConfigured == "Salesforce credentials are not configured."
LoginFailed == "Failed to authenticate with Salesforce."
MetadataFailed == "Failed to load configuration."

\* The resolver getObjectMetadata returns OBJECT_CONFIG.
getObjectMetadata == OBJECT_CONFIG

\* Object.keys of the result of getObjectMetadata.
ObjectKeys == <<"Account", "Contact", "Opportunity">>

\* The branch of App's render that is taken.
View(a) ==
    IF a.connected = "null" THEN "checking"
    ELSE IF a.connected = "false" THEN "notConnected"
    ELSE IF a.loading THEN "loadingConfiguration"
    ELSE IF a.error # "none" THEN "metadataError"
    ELSE "browser"

\* The buttons the rendered branch holds.
Buttons(a) ==
    IF View(a) = "notConnected" THEN {"Retry Connection"}
    ELSE IF View(a) = "browser" THEN {"Disconnect"} \cup Range(a.availableObjects)
    ELSE {}

\* The rendered branch shows the text of `error`.
ErrorShown(a) ==
    a.mounted /\ a.error # "none" /\ View(a) \in {"notConnected", "metadataError"}

\* The content area mounts ObjectBrowser (key and objectType: activeTab):
\* `metadata && activeTab && metadata[activeTab]`, in the last branch of render.
Mounts(a) ==
    /\ View(a) = "browser"
    /\ a.metadata # {}
    /\ a.activeTab # ""
    /\ a.activeTab \in a.metadata

\* attemptConnection goes on to loginToSalesforce unless
\* `!check || check.connected === false`.
Configured(check) == check # "notConnected"

AppCall(resolver) == [NoCall EXCEPT !.by = "app", !.resolver = resolver]

AppSettled(resolver) == [by |-> "app", run |-> 0, resolver |-> resolver]

\* A handler of App begins: it resumes from the call in slot t (0: from a
\* click) and leaves App as a. (A step that invokes names the invocation it
\* issued only.)
Handled(t, resolver, a) ==
    [ui EXCEPT !.calls = IF t = 0 THEN @ ELSE [@ EXCEPT ![t] = NoCall],
               !.invoked = NoInvoke,
               !.settled = IF t = 0 THEN NoInvoke ELSE AppSettled(resolver),
               !.app = a]

HasFree(u) == \E t \in Tasks : FreeTask(u, t)

\* fetchMetadata up to its await. getObjectMetadata reads no state of the
\* back end: the call holds the first free slot until it settles.
fetchMetadata(u) ==
    LET t == CHOOSE s \in Tasks : FreeTask(u, s) IN
    [u EXCEPT !.calls[t] = [AppCall("getObjectMetadata") EXCEPT !.outcome = "pending"],
              !.invoked = AppSettled("getObjectMetadata")]

\* The cleanup of the metadata effect: cancelled = true in the run before.
MetadataCleanup(u) ==
    [u EXCEPT !.calls = [s \in Tasks |->
        IF u.calls[s].resolver = "getObjectMetadata"
        THEN [u.calls[s] EXCEPT !.cancelled = TRUE]
        ELSE u.calls[s]]]

\* The effect with dependencies [connected, activeTab] runs again after one of
\* them changed: the cleanup, and the new run returns unless connected.
MetadataEffect(u) ==
    IF u.app.connected = "true" THEN fetchMetadata(MetadataCleanup(u))
    ELSE MetadataCleanup(u)

\* The effect can run in the slots there are.
EffectCanRun(u) == u.app.connected = "true" => HasFree(MetadataCleanup(u))

\* ObjectBrowser is unmounted: what its outstanding invocations set later is
\* not shown.
Unmounted(u) ==
    [u EXCEPT !.browser = NoBrowser,
              !.calls = [s \in Tasks |->
                  IF u.calls[s].by = "browser"
                  THEN [u.calls[s] EXCEPT !.cancelled = TRUE]
                  ELSE u.calls[s]]]

\* App renders after a handler left the front end as u: ObjectBrowser is
\* mounted (and its effect of mount calls fetchRecords("", {}, 0) as task t),
\* replaced when its key changed, unmounted, or kept.
Render(t, u) ==
    LET a == u.app
        b == u.browser IN
    IF Mounts(a) /\ (~b.mounted \/ b.objectType # a.activeTab)
    THEN fetchRecordsIn(t, Unmounted(u),
                        [NoBrowser EXCEPT !.mounted = TRUE, !.objectType = a.activeTab],
                        "", <<>>, 0)
    ELSE /\ ui' = IF Mounts(a) THEN u ELSE Unmounted(u)
         /\ BackendIdle

\* attemptConnection up to its first await.
attemptConnection(t) ==
    InvokeWith(t, checkSalesforceConnection(t), AppCall("checkSalesforceConnection"),
               Unmounted(Handled(0, "",
                    [ui.app EXCEPT !.mounted = TRUE, !.connected = "null",
                                   !.error = "none", !.loading = TRUE])))

\* App mounts: the effect of mount calls attemptConnection.
AppMount(t) ==
    /\ ~ui.app.mounted
    /\ attemptConnection(t)

\* A click on "Retry Connection".
RetryConnection(t) ==
    /\ ui.app.mounted
    /\ "Retry Connection" \in Buttons(ui.app)
    /\ attemptConnection(t)

\* attemptConnection from the answer of checkSalesforceConnection on.
CheckSettled(t, next) ==
    LET call == ui.calls[t] IN
    /\ call.by = "app" /\ call.resolver = "checkSalesforceConnection"
    /\ call.outcome \in {"connected", "notConnected"}
    /\ IF Configured(call.outcome)
       THEN InvokeWith(next, loginToSalesforce(next), AppCall("loginToSalesforce"),
                       Handled(t, call.resolver, ui.app))
       ELSE Render(next, Handled(t, call.resolver,
                        [ui.app EXCEPT !.connected = "false", !.loading = FALSE,
                                       !.error = NotConfigured]))

\* attemptConnection from the answer of loginToSalesforce on; connected
\* becomes true and the metadata effect runs.
LoginSettled(t, next) ==
    LET call == ui.calls[t]
        failed == Handled(t, call.resolver,
                    [ui.app EXCEPT !.connected = "false", !.loading = FALSE,
                                   !.error = LoginFailed])
        done == Handled(t, call.resolver,
                    [ui.app EXCEPT !.connected = "true", !.loading = TRUE]) IN
    /\ call.by = "app" /\ call.resolver = "loginToSalesforce"
    /\ call.outcome \in {"ok", "error"}
    /\ IF call.outcome = "error"
       THEN Render(next, failed)
       ELSE /\ EffectCanRun(done)
            /\ Render(next, MetadataEffect(done))

\* fetchMetadata from its await on: getObjectMetadata answered (ok) or the
\* invocation was rejected. A cancelled run sets nothing.
MetadataSettled(t, outcome, next) ==
    LET call == ui.calls[t]
        a == ui.app
        tab == IF a.activeTab = "" /\ Len(ObjectKeys) > 0 THEN ObjectKeys[1]
               ELSE a.activeTab
        failed == Handled(t, call.resolver,
                    [a EXCEPT !.error = MetadataFailed, !.loading = FALSE])
        loaded == Handled(t, call.resolver,
                    [a EXCEPT !.metadata = DOMAIN getObjectMetadata,
                              !.availableObjects = ObjectKeys,
                              !.activeTab = tab,
                              !.loading = FALSE]) IN
    /\ call.by = "app" /\ call.resolver = "getObjectMetadata"
    /\ call.outcome = "pending"
    /\ outcome \in {"ok", "rejected"}
    /\ IF call.cancelled
       THEN Render(next, Handled(t, call.resolver, a))
       ELSE IF outcome = "rejected"
       THEN Render(next, failed)
       ELSE IF tab # a.activeTab
       THEN /\ EffectCanRun(loaded)
            /\ Render(next, MetadataEffect(loaded))
       ELSE Render(next, loaded)

\* A click on a tab: setActiveTab(objType); when the tab changed, the
\* metadata effect runs again and ObjectBrowser is replaced.
TabClick(objType, next) ==
    LET clicked == Handled(0, "", [ui.app EXCEPT !.activeTab = objType]) IN
    /\ ui.app.mounted
    /\ objType \in Buttons(ui.app) \ {"Disconnect"}
    /\ objType # ui.app.activeTab
    /\ EffectCanRun(clicked)
    /\ Render(next, MetadataEffect(clicked))

\* handleDisconnect up to its await: disconnectSalesforce has no await and
\* answers in the step it is invoked in.
handleDisconnect(t) ==
    /\ ui.app.mounted
    /\ "Disconnect" \in Buttons(ui.app)
    /\ FreeTask(ui, t)
    /\ disconnectSalesforce
    /\ ui' = [ui EXCEPT !.calls[t] = [AppCall("disconnectSalesforce") EXCEPT
                                        !.outcome = "ok"],
                        !.invoked = AppSettled("disconnectSalesforce"),
                        !.settled = NoInvoke]

\* handleDisconnect from its await on: the state of App is reset, the
\* metadata effect is cleaned up and returns at `if (!connected)`, and
\* ObjectBrowser is unmounted.
DisconnectSettled(t, next) ==
    LET call == ui.calls[t] IN
    /\ call.by = "app" /\ call.resolver = "disconnectSalesforce"
    /\ call.outcome = "ok"
    /\ Render(next, MetadataEffect(Handled(t, call.resolver,
                        [NoApp EXCEPT !.mounted = TRUE, !.connected = "false"])))

\* The app is deployed with the JWT back end and any of the variables set.
InitApp ==
    /\ InitEnv
    /\ variant = "jwt"

NextApp ==
    \/ \E t \in Tasks : AppMount(t)
    \/ \E t \in Tasks : RetryConnection(t)
    \/ \E t \in Tasks, next \in Tasks : CheckSettled(t, next)
    \/ \E t \in Tasks, next \in Tasks : LoginSettled(t, next)
    \/ \E t \in Tasks, outcome \in {"ok", "rejected"}, next \in Tasks :
            MetadataSettled(t, outcome, next)
    \/ \E objType \in DOMAIN OBJECT_CONFIG, next \in Tasks : TabClick(objType, next)
    \/ \E t \in Tasks : handleDisconnect(t)
    \/ \E t \in Tasks, next \in Tasks : DisconnectSettled(t, next)
    \/ \E t \in Tasks, resp \in AuthResponses : LoginResponse(t, resp)
    \/ \E t \in Tasks, params \in Params : handleApply(t, params)
    \/ \E t \in Tasks : QuerySettled(t)
    \/ \E o \in Tasks, resp \in AuthResponses : AuthResponse(o, resp)
    \/ \E o \in Tasks : RetryTimer(o)
    \/ \E t \in Tasks, status \in DataResponses : DataResponse(t, status)

SpecApp == InitApp /\ [][NextApp]_vars

----------------------------------------------------------------------------
\* Properties. Steps(P(_)) reads: P holds of every invocation the last step
\* touched, as that step left it.

Touched == DOMAIN ev
Owners == {t \in Tasks : tasks[t].rstate # "none"}
Called(t) == ev[t].callKind # "none"
Finished(t) == ev[t].pc = "done"
Received(t) == ev[t].from # 0

\* One refresh at a time, awaited by every caller that found the cache stale.
OneRefresh ==
    /\ Cardinality(Owners) <= 1
    /\ tokenPromise # 0 <=> Owners = {tokenPromise}
    /\ \A t \in Tasks : tasks[t].pc = "awaitToken" =>
            tasks[t].waitOn = tokenPromise /\ tokenPromise # 0
    /\ \A t \in Touched : Called(t) /\ ~ev[t].sawValid =>
            ev[t].callKind \in {"join", "own"}

\* The callers that awaited one refresh got the same outcome.
SameOutcome ==
    \A u, v \in Touched :
        Received(u) /\ ev[u].from = ev[v].from =>
            /\ ev[u].pc = ev[v].pc
            /\ ev[u].auth = ev[v].auth
            /\ ev[u].result = ev[v].result
            /\ ev[u].err = ev[v].err

\* C1 as stated: the callers that find the cache stale before the refresh has
\* completed cause exactly one call to the token endpoint, and all of them
\* receive the same AuthResult or the same error.
C1_ExactlyOneTokenCall ==
    /\ OneRefresh
    /\ SameOutcome
    /\ \A t \in Tasks : tasks[t].rstate # "none" => tasks[t].calls <= 1

\* C1 as amended: these callers cause exactly one refresh, which sends at most
\* 3 requests to the token endpoint, one after the other, and all of them
\* receive the same AuthResult or the same error.
C1_SingleFlight ==
    /\ OneRefresh
    /\ SameOutcome
    /\ \A t \in Tasks : tasks[t].calls <= 3

\* Two callers have received the token of one refresh that needed a second
\* request to the token endpoint.
C1_Witness ==
    \E u, v \in Touched :
        /\ u # v
        /\ ev[u].from = u /\ ev[v].from = u
        /\ ev[u].calls > 1
        /\ ev[u].pc = "dataCall" /\ ev[u].auth = ev[v].auth

\* C2: at most one request to the token endpoint is outstanding, whatever
\* resolvers run concurrently.
C2_OneTokenRequest ==
    Cardinality({t \in Tasks : tasks[t].rstate = "fetch" \/ tasks[t].pc = "loginFetch"}) <= 1

After401(t) ==
    /\ variant = "jwt"
    /\ ev[t].op \in {"query", "pardot"}
    /\ ev[t].first401

\* C3 as stated: in the JWT variant a 401 answer to executeSalesforceQuery or
\* executePardotRequest is followed by exactly one invalidation, one
\* re-authentication and one retried data call.
C3_OneRetryAfter401 ==
    \A t \in Touched : Finished(t) /\ After401(t) =>
        ev[t].invals = 1 /\ ev[t].reauths = 1 /\ ev[t].dataCalls = 2

\* C3 as amended: the 401 is followed by exactly one invalidation and one
\* re-authentication; by exactly one retried data call when the
\* re-authentication succeeds, whose outcome (a second 401 included) is
\* returned; and by no retried data call when the re-authentication fails,
\* whose error is returned.
C3_OneRetryAfter401Amended ==
    /\ \A t \in Tasks :
          tasks[t].invals <= 1 /\ tasks[t].reauths <= 1 /\ tasks[t].dataCalls <= 2
    /\ \A t \in Touched : After401(t) =>
          /\ ev[t].invals = 1 /\ ev[t].reauths = 1
          /\ ev[t].pc \in {"awaitToken", "dataCall", "done"}
          /\ ev[t].pc = "dataCall" => ev[t].dataCalls = 2 /\ Received(t)
          /\ Finished(t) =>
                IF Received(t)
                THEN ev[t].dataCalls = 1 /\ ev[t].result = "error"
                     /\ ev[t].err.kind \notin {"none", "UpstreamError"}
                ELSE ev[t].dataCalls = 2
                     /\ ev[t].err.kind \in {"none", "UpstreamError"}

\* The retried data call was answered 401 too, and that is returned.
C3_Witness ==
    \E t \in Touched :
        /\ Finished(t) /\ After401(t)
        /\ ev[t].dataCalls = 2
        /\ ev[t].err = UpstreamError(401)

\* C4: in both variants every data request answered 401 has the cache
\* invalidated and is reissued once with a new token.
C4_Every401Retried ==
    \A t \in Touched : Finished(t) /\ ev[t].first401 => ev[t].invals = 1

C6_FreshAfterDisconnect ==
    \A t \in Touched : ~ev[t].servedOld

\* C7: a failure of the token endpoint that is not transient is surfaced at
\* once: no pause and no further request follow it.
C7_NonTransientNotRetried ==
    \A t \in Touched :
        ev[t].rstate = "sleep" /\ ev[t].pauseCause.kind # "MissingCredentials" =>
            IsTransient(ev[t].pauseCause)

\* C8: a refresh sends at most 3 requests to the token endpoint, and an error
\* it surfaces that carries the transient marker is that of its third try.
C8_AtMostThreeAttempts ==
    /\ \A t \in Tasks : tasks[t].calls <= 3 /\ tasks[t].tries <= 3
    /\ \A t \in Touched : ev[t].calls <= 3 /\ ev[t].tries <= 3
    /\ \A t \in Touched :
          Finished(t) /\ Received(t) /\ IsTransient(ev[t].err) =>
              /\ ev[t].err.attempt = 3
              /\ ev[ev[t].from].tries = 3

\* Three requests were all answered with the transient marker, and the third
\* answer is the error the owner of the refresh gets.
C8_Witness ==
    \E t \in Touched :
        /\ Finished(t) /\ ev[t].from = t
        /\ ev[t].calls = 3 /\ ev[t].pauses = 2
        /\ IsTransient(ev[t].err) /\ ev[t].err.attempt = 3

\* C9: with a required credential unset, no request is sent to the token
\* endpoint.
C9_NoRequestWithoutCredentials ==
    \A t \in Touched : ~ev[t].incomplete

\* C10: a missing-credentials error is terminal: no pause follows it, and the
\* credentials are checked once.
C10_MissingCredentialsTerminal ==
    \A t \in Touched :
        /\ ev[t].pauseCause.kind # "MissingCredentials"
        /\ ev[t].err.kind = "MissingCredentials" => ev[t].credChecks = 1

\* C11: when a refresh ends in failure, tokenCache is null afterwards and every
\* caller attached to the refresh has received the error.
C11_CacheClearedOnFailure ==
    \A t \in Touched :
        Finished(t) /\ Received(t) /\ ev[t].result = "error" =>
            /\ tokenCache = NoCache
            /\ \A u \in Tasks : tasks[u].pc = "awaitToken" => tasks[u].waitOn # ev[t].from
            /\ \A u \in Touched : ev[u].from = ev[t].from => ev[u].err = ev[t].err

\* C12: tokenPromise is non-null exactly while a refresh (its tries and pauses
\* included) is running; the step that settles the refresh resets it, a caller
\* joins only a refresh that is still running, and a call that finds the cache
\* stale and no refresh running begins the first try of a new refresh.
C12_PromiseOnlyWhileRefreshing ==
    /\ tokenPromise # 0 => tasks[tokenPromise].rstate \in {"fetch", "sleep"}
    /\ \A t \in Tasks : tasks[t].rstate # "none" => tokenPromise = t
    /\ \A t \in Touched :
          /\ Received(t) => tokenPromise = 0 /\ tasks[ev[t].from].rstate = "none"
          /\ ev[t].callKind = "join" =>
                /\ ev[t].pc = "awaitToken" /\ ev[t].waitOn = tokenPromise
                /\ tasks[tokenPromise].rstate # "none"
          /\ ev[t].callKind = "own" /\ ev[t].rstate # "none" =>
                tokenPromise = t /\ ev[t].tries = 1

\* In the refresh-token variant (which has no login), a call finds the entry
\* of an earlier, completed refresh expired and begins a new refresh.
C12_Witness ==
    \E t \in Touched :
        /\ variant = "rt"
        /\ ev[t].sawLast = "expired"
        /\ ev[t].callKind = "own"
        /\ ev[t].tries = 1
        /\ tokenPromise = t

\* C13: the re-authentication that follows a 401 sends a single request to the
\* token endpoint and takes no pause.
C13_SingleAttemptAfter401 ==
    \A t \in Tasks :
        tasks[t].phase = 2 /\ tasks[t].rstate # "none" =>
            tasks[t].calls <= 1 /\ tasks[t].pauses = 0

\* The step just taken ended t's invocation with the error of a data response
\* whose status is neither success nor 401.
OtherFailure(t) ==
    /\ tasks[t].pc = "dataCall"
    /\ t \in DOMAIN ev'
    /\ ev'[t].pc = "done"
    /\ ev'[t].err.kind = "UpstreamError"
    /\ ev'[t].err.status # 401

\* C14: a data response with a non-success status other than 401 ends the
\* invocation with an error; no second data request and no token request is
\* sent for it, and tokenCache and tokenPromise are left unchanged.
C14_NoRetryOnOtherStatus ==
    /\ [](\A t \in Touched : ev[t].dataCalls = 2 => ev[t].first401)
    /\ [](\A t \in Tasks : tasks[t].dataCalls = 2 => tasks[t].first401)
    /\ [][\A t \in Tasks : OtherFailure(t) =>
            /\ tokenCache' = tokenCache
            /\ tokenPromise' = tokenPromise
            /\ ev'[t].result = "error"
            /\ ev'[t].dataCalls = tasks[t].dataCalls
            /\ ev'[t].calls = tasks[t].calls
            /\ ev'[t].invals = tasks[t].invals
            /\ tasks'[t] = IdleTask
            /\ \A u \in Tasks \ {t} : tasks'[u] = tasks[u]]_vars

\* A first data request was answered 500 while a token was cached: the
\* invocation ended with that error after one data request.
C14_Witness ==
    \E t \in Touched :
        /\ Finished(t)
        /\ ev[t].err = UpstreamError(500)
        /\ ev[t].dataCalls = 1 /\ ev[t].invals = 0
        /\ tokenCache # NoCache

\* C15: the token of a data request just issued was handed out either from a
\* cache entry with now < expiresAt or by the authentication that has just
\* completed (whose entry is the one now cached); an entry with
\* now >= expiresAt is never handed out.
C15_TokenValidWhenHandedOut ==
    \A t \in Touched : ev[t].pc = "dataCall" =>
        /\ ev[t].auth.access_token # 0
        /\ ev[t].auth.access_token = tokenCache.access_token
        /\ ev[t].auth.instance_url = tokenCache.instance_url
        /\ \/ /\ ev[t].callKind = "hit"
              /\ ev[t].sawValid
              /\ ~Received(t)
              /\ now < tokenCache.expiresAt
           \/ /\ Received(t)
              /\ ev[t].callKind = "none"
              /\ tokenCache.expiresAt = now + ValidityWindow

\* A token is handed out from the cache at the last instant before it expires.
C15_Witness ==
    \E t \in Touched :
        /\ ev[t].pc = "dataCall"
        /\ ev[t].callKind = "hit"
        /\ now > 0
        /\ now + 1 = tokenCache.expiresAt

\* The step just taken was the successful answer of the token endpoint to the
\* request of t (a refresh or a login), and tokenCache holds that answer.
WrittenFrom(t) ==
    /\ tasks[t].rstate = "fetch" \/ tasks[t].pc = "loginFetch"
    /\ t \in DOMAIN ev'
    /\ ev'[t].err = NoErr
    /\ IF tasks[t].pc = "loginFetch"
       THEN ev'[t].pc = "done" /\ ev'[t].result = "ok"
       ELSE /\ ev'[t].from = t
            /\ ev'[t].auth.access_token = tokenCache'.access_token
            /\ ev'[t].auth.instance_url = tokenCache'.instance_url

\* C16: tokenCache gets a new entry only in the step that handles a successful
\* answer of the token endpoint, and the entry holds the access_token and the
\* instance_url of that one answer and expiresAt = now + 55 minutes; an entry
\* never mixes two answers.
C16_EntryFromOneAuthentication ==
    /\ [](tokenCache # NoCache =>
            /\ tokenCache.access_token # 0
            /\ tokenCache.instance_url = tokenCache.access_token
            /\ tokenCache.expiresAt - ValidityWindow \in 0..now)
    /\ [][tokenCache' # tokenCache /\ tokenCache' # NoCache =>
            /\ tokenCache'.expiresAt = now + ValidityWindow
            /\ tokenCache'.access_token \notin UsedTokens(tokenCache, tasks)
            /\ tokenCache'.instance_url = tokenCache'.access_token
            /\ \E t \in Tasks : WrittenFrom(t)]_vars

\* loginToSalesforce has replaced, at a later time, the entry cached before.
C16_Witness ==
    \E t \in Touched :
        /\ ev[t].op = "login"
        /\ Finished(t) /\ ev[t].result = "ok"
        /\ now > 0
        /\ tokenCache.access_token > 1
        /\ tokenCache.expiresAt = now + ValidityWindow

----------------------------------------------------------------------------
\* Properties of the queries built.

\* How the query language reads a query: outside a string literal a quote
\* opens one; inside, a backslash takes the next character with it and a
\* quote closes the literal. The result is the literals read (without their
\* quotes) and whether the text ends inside a literal.
RECURSIVE Lex(_, _, _, _, _)
Lex(q, i, inside, cur, bodies) ==
    IF i > Len(q) THEN [bodies |-> bodies, open |-> inside]
    ELSE IF ~inside
    THEN Lex(q, i + 1, q[i] = "'", <<>>, bodies)
    ELSE IF q[i] = "\\" /\ i < Len(q)
    THEN Lex(q, i + 2, TRUE, cur \o <<q[i], q[i + 1]>>, bodies)
    ELSE IF q[i] = "'"
    THEN Lex(q, i + 1, FALSE, <<>>, Append(bodies, cur))
    ELSE Lex(q, i + 1, TRUE, Append(cur, q[i]), bodies)

RECURSIVE EscapedValues(_)
EscapedValues(filters) ==
    IF filters = <<>> THEN <<>>
    ELSE (IF Head(filters).value # <<>> THEN <<Escape(Head(filters).value)>> ELSE <<>>)
         \o EscapedValues(Tail(filters))

\* What the resolver has put between the quotes of each literal of its query.
Interpolated(r) ==
    (IF r.resolver = "searchSalesforceAccounts" THEN << <<"Former Customer">> >> ELSE <<>>)
    \o (IF r.search # <<>> THEN << <<"%">> \o Escape(r.search) \o <<"%">> >> ELSE <<>>)
    \o EscapedValues(r.filters)

QuotesEscaped(s) ==
    \A i \in 1..Len(s) : s[i] = "'" => i > 1 /\ s[i - 1] = "\\"

\* C17: in the query built from a search term and filter values that may hold
\* quotes and backslashes, every quote of the user's text has a backslash
\* before it, and the text never closes its literal early: the literals the
\* query language reads are exactly the ones the resolver wrote.
C17_QuotesNeverCloseEarly ==
    request.soql # <<>> =>
        /\ QuotesEscaped(Escape(request.search))
        /\ \A k \in 1..Len(request.filters) : QuotesEscaped(Escape(request.filters[k].value))
        /\ ~Lex(request.soql, 1, FALSE, <<>>, <<>>).open
        /\ Lex(request.soql, 1, FALSE, <<>>, <<>>).bodies = Interpolated(request)

Count(q, tok) == Cardinality({i \in 1..Len(q) : q[i] = tok})

\* The pieces that stand right before each occurrence of tok, in order.
Before(q, tok) ==
    LET pairs == [i \in 1..(Len(q) - 1) |-> <<q[i], q[i + 1]>>]
        hits == SelectSeq(pairs, LAMBDA pr : pr[2] = tok) IN
    [i \in 1..Len(hits) |-> hits[i][1]]

NonEmptyFilters(filters) == SelectSeq(filters, LAMBDA e : e.value # <<>>)

\* C18: for a supported object type the query selects exactly the configured
\* fields, has a LIKE clause on the search field iff the search term is not
\* empty, one equality clause per filter with a non-empty value and none for an
\* empty value, joins the clauses with AND, and ends with
\* ORDER BY <search field> ASC LIMIT <limit> OFFSET <offset>.
C18_QueryShape ==
    request.resolver = "querySalesforce" /\ request.soql # <<>> =>
        LET q == request.soql
            config == OBJECT_CONFIG[request.objectType]
            n == Len(config.fields)
            used == NonEmptyFilters(request.filters)
            clauses == (IF request.search # <<>> THEN 1 ELSE 0) + Len(used)
            where == SubSeq(q, 2 * n + 3, Len(q) - 7) IN
        /\ q[1] = "SELECT"
        /\ \A i \in 1..n : q[2 * i] = config.fields[i]
        /\ \A i \in 1..(n - 1) : q[2 * i + 1] = ","
        /\ q[2 * n + 1] = "FROM" /\ q[2 * n + 2] = request.objectType
        /\ SubSeq(q, Len(q) - 6, Len(q)) =
              <<"ORDER BY", config.searchField, "ASC",
                "LIMIT", ToString(request.limit), "OFFSET", ToString(request.offset)>>
        /\ clauses = 0 <=> where = <<>>
        /\ clauses > 0 => where[1] = "WHERE" /\ Count(where, "WHERE") = 1
        /\ Count(where, "AND") = (IF clauses > 0 THEN clauses - 1 ELSE 0)
        /\ Before(where, "LIKE") =
              (IF request.search # <<>> THEN <<config.searchField>> ELSE <<>>)
        /\ request.search # <<>> => where[3] = "LIKE"
        /\ Before(where, "=") = [i \in 1..Len(used) |-> used[i].field]

\* A query built from a search term and two filters, the first with an empty
\* value.
C18_Witness ==
    /\ request.resolver = "querySalesforce"
    /\ request.soql # <<>>
    /\ request.search # <<>>
    /\ Len(request.filters) = 2
    /\ request.filters[1].value = <<>>
    /\ request.filters[2].value # <<>>
    /\ request.offset = 50

\* C19: querySalesforce called with an object type that is not in
\* OBJECT_CONFIG returns an error naming that type, sends no token request and
\* no data request, and leaves no refresh running.
C19_UnsupportedObjectNamed ==
    request.resolver = "querySalesforce" /\ request.objectType \notin DOMAIN OBJECT_CONFIG =>
        /\ request.task \in Touched
        /\ Finished(request.task)
        /\ ev[request.task].result = "error"
        /\ ev[request.task].err = UnsupportedObject(request.objectType)
        /\ ev[request.task].calls = 0
        /\ ev[request.task].dataCalls = 0
        /\ request.soql = <<>>
        /\ tokenPromise = 0

\* C20: when credential loading, authentication or the data request fails
\* during querySalesforce or getPicklistValues, the resolver returns the error
\* object with the message of that failure; it returns a result only after a
\* data request that succeeded, never in place of an error.
C20_ErrorsReturnedAsErrors ==
    \A t \in Touched : Finished(t) /\ ev[t].op \in {"query", "picklist"} =>
        /\ ev[t].result \in {"ok", "error"}
        /\ ev[t].err # NoErr <=> ev[t].result = "error"
        /\ ev[t].result = "ok" => ev[t].dataCalls >= 1 /\ tasks[t] = IdleTask
        /\ ev[t].result = "error" =>
              ev[t].err.kind \in {"MissingCredentials", "AuthEndpointError", "NetworkError",
                                  "MalformedResponse", "UpstreamError"}
        /\ ev[t].err.kind \in {"MissingCredentials", "AuthEndpointError", "NetworkError",
                               "MalformedResponse"} =>
              ev[t].dataCalls = (IF ev[t].first401 THEN 1 ELSE 0)

\* getPicklistValues has returned the error object for credentials that are
\* missing.
C20_Witness ==
    \E t \in Touched :
        /\ Finished(t)
        /\ ev[t].op = "picklist"
        /\ ev[t].result = "error"
        /\ ev[t].err.kind = "MissingCredentials"
        /\ ev[t].dataCalls = 0

----------------------------------------------------------------------------
\* C21: checkSalesforceConnection answers connected = true exactly when the
\* credential load of an authentication attempt would succeed (getJwtCredentials
\* finds nothing missing), whatever tokenCache holds; it sends no request and
\* leaves tokenCache and tokenPromise as they were.
C21_ConnectionCheck ==
    /\ [](\A t \in Touched : ev[t].op = "check" =>
            /\ (ev[t].result = "connected") <=> (getJwtCredentials(env) = <<>>)
            /\ ev[t].result \in {"connected", "notConnected"}
            /\ ev[t].pc = "done"
            /\ ev[t].calls = 0 /\ ev[t].dataCalls = 0 /\ ev[t].tries = 0)
    /\ [][(\E t \in DOMAIN ev' : ev'[t].op = "check") =>
            /\ tokenCache' = tokenCache
            /\ tokenPromise' = tokenPromise
            /\ \A u \in Tasks : tasks'[u] = tasks[u]]_vars

\* The check answers "not connected" while an unexpired token is cached.
C21_Witness ==
    \E t \in Touched :
        /\ ev[t].op = "check"
        /\ ev[t].result = "notConnected"
        /\ CacheValid(tokenCache)
        /\ ev[t].auth.instance_url = tokenCache.instance_url

----------------------------------------------------------------------------
\* The step begins a try of the refresh owned by o, or loginToSalesforce by o.
AttemptBegun(o) ==
    /\ o \in DOMAIN ev'
    /\ \/ ev'[o].tries = tasks[o].tries + 1
       \/ tasks[o].pc = "idle" /\ ev'[o].op = "login"

\* C22: every authentication attempt, the retries of a refresh included, reads
\* the credentials from the environment as it is when the attempt begins, once:
\* an attempt that finds a variable missing fails with exactly the names
\* missing now, and the request of any other attempt is built from the
\* variables as they are set now, whatever an earlier attempt found.
C22_CredentialsReadPerAttempt ==
    [][\A o \in Tasks : AttemptBegun(o) =>
          LET missing == getJwtCredentials(env') IN
          /\ env' = env
          /\ variant = "jwt" => ev'[o].credChecks = tasks[o].credChecks + 1
          /\ IF variant = "jwt" /\ missing # <<>>
             THEN /\ ev'[o].calls = tasks[o].calls
                  /\ \/ ev'[o].pauseCause = MissingCredentials(missing)
                     \/ ev'[o].err = MissingCredentials(missing)
             ELSE /\ ev'[o].calls = tasks[o].calls + 1
                  /\ ev'[o].pc \in {"awaitToken", "loginFetch"}
                  /\ ev'[o].incomplete = (Range(RequiredFields(variant)) \ env' # {})]_vars

\* A retry finds a variable missing after an earlier try of the same refresh
\* sent its request with every variable set.
C22_Witness ==
    \E o \in Touched :
        /\ ev[o].tries >= 2
        /\ ev[o].calls >= 1
        /\ ev[o].pauseCause.kind = "MissingCredentials"

----------------------------------------------------------------------------
\* C25: the token of the data request reissued after a 401 is never read from
\* tokenCache: the call of getSalesforceAccessToken made on the 401 owns or joins
\* a refresh, and the request is sent in the step in which that refresh
\* succeeds, with the token that step has just written.
C25_RetryTokenFromNewAuthentication ==
    \A t \in Touched :
        /\ (ev[t].phase = 2 /\ ev[t].callKind # "none") =>
                /\ ev[t].callKind \in {"join", "own"}
                /\ ev[t].pc = "awaitToken"
                /\ ev[t].auth = NoAuth
                /\ tokenPromise = ev[t].waitOn
        /\ (ev[t].phase = 2 /\ ev[t].pc = "dataCall") =>
                /\ ev[t].callKind = "none"
                /\ ev[t].from # 0
                /\ ev[t].from \in Touched
                /\ ev[t].dataCalls = 2
                /\ ev[t].auth.access_token = tokenCache.access_token
                /\ tokenCache.expiresAt = now + ValidityWindow

\* The reissued request carries the token of a refresh another invocation
\* had in flight when the 401 arrived.
C25_Witness ==
    \E t \in Touched :
        /\ ev[t].phase = 2
        /\ ev[t].pc = "dataCall"
        /\ ev[t].from # t
        /\ ev[t].first401

----------------------------------------------------------------------------
\* C26: when every network call returns and every timer fires, every
\* invocation in progress returns or throws, whatever 401s, disconnects and
\* logins come in between; in particular a caller waiting on tokenPromise, as
\* owner of the refresh or joined to it, stops waiting on it: it gets the token
\* and goes on to its data request, or gets the error and throws.
C26_EveryCallCompletes ==
    \A t \in Tasks : (tasks[t].pc # "idle") ~> (tasks[t].pc = "idle")

\* A caller has joined, after a 401, a refresh whose request was in flight at
\* a disconnect.
C26_Witness ==
    \E t \in Tasks :
        /\ tasks[t].pc = "awaitToken"
        /\ tasks[t].waitOn # t
        /\ tasks[t].invals = 1
        /\ tasks[tasks[t].waitOn].old

----------------------------------------------------------------------------
\* The step has reissued the request of t after a 401.
Reissued(t) == ev[t].phase = 2 /\ ev[t].pc = "dataCall"

----------------------------------------------------------------------------
\* C28: no step of loginToSalesforce touches tokenPromise; a login that fails
\* (a credential missing, or any failure of the token request) writes nothing
\* to tokenCache and returns the error; a login that succeeds replaces the
\* entry by the new token, expiring 55 minutes from now.
C28_LoginFrame ==
    [][\A t \in Tasks : (t \in DOMAIN ev' /\ ev'[t].op = "login") =>
          /\ tokenPromise' = tokenPromise
          /\ \A u \in Tasks \ {t} : tasks'[u] = tasks[u]
          /\ IF ev'[t].pc = "done" /\ ev'[t].result = "ok"
             THEN /\ tokenCache'.access_token \notin {0, tokenCache.access_token}
                  /\ tokenCache'.instance_url = tokenCache'.access_token
                  /\ tokenCache'.expiresAt = now + ValidityWindow
                  /\ CacheValid(tokenCache)'
             ELSE /\ tokenCache' = tokenCache
                  /\ ev'[t].pc = "done" =>
                        /\ ev'[t].result = "error"
                        /\ ev'[t].err.kind \in {"MissingCredentials", "AuthEndpointError",
                                                "NetworkError", "MalformedResponse"}
                  /\ ev'[t].pc # "done" => ev'[t].pc = "loginFetch"]_vars

\* A login has failed and the unexpired entry cached before is still there.
C28_Witness ==
    \E t \in Touched :
        /\ ev[t].op = "login"
        /\ ev[t].result = "error"
        /\ ev[t].calls = 1
        /\ CacheValid(tokenCache)

----------------------------------------------------------------------------
\* C29: once every querySalesforce invocation of ObjectBrowser has settled,
\* the records, the totalSize and the error shown are those of the query
\* issued last, which is the query of currentSearch, currentFilters and page.
C29_LatestQueryShown ==
    LET b == ui.browser
        latest == [search |-> b.currentSearch, filters |-> b.currentFilters,
                   page |-> b.page] IN
    (b.mounted /\ \A t \in Tasks : ui.calls[t] = NoCall) =>
        /\ ~b.loading
        /\ \/ b.error = NoQuery /\ b.records = latest /\ b.totalSize = latest
           \/ b.error = latest /\ b.records = NoQuery /\ b.totalSize = NoQuery

----------------------------------------------------------------------------
\* C30: in SalesforceAccountField, the response of a search whose run of the
\* effect has been cleaned up (the term changed, or the field unmounted)
\* changes neither options nor error nor loading; a search is invoked only
\* by the latest run of the effect, for the term the field holds, so a term
\* replaced before its 300 ms were over (its timer cleared) is never searched.
C30_SupersededSearchIgnored ==
    /\ [](ui.invoked.by = "field" =>
            /\ ui.invoked.run = ui.field.run
            /\ ui.field.mounted
            /\ ~ui.effects[ui.invoked.run].cancelled
            /\ ui.effects[ui.invoked.run].term = ui.field.search)
    /\ [](\A k \in 1..MaxRuns :
            ui.effects[k].timer = "cleared" =>
                /\ ui.effects[k].cancelled
                /\ \A t \in Tasks : ~(ui.calls[t].by = "field" /\ ui.calls[t].run = k))
    /\ [][(ui'.settled.by = "field" /\ ui.effects[ui'.settled.run].cancelled) =>
            /\ ui'.field.options = ui.field.options
            /\ ui'.field.error = ui.field.error
            /\ ui'.field.loading = ui.field.loading]_vars

\* The response of a search arrives after the term has changed and the
\* search for the new term has been invoked.
C30_Witness ==
    /\ ui.settled.by = "field"
    /\ ui.effects[ui.settled.run].cancelled
    /\ ui.effects[ui.settled.run].term # ui.field.search
    /\ ui.field.mounted
    /\ ui.field.loading
    /\ \E t \in Tasks : ui.calls[t].by = "field" /\ ui.calls[t].run = ui.field.run

----------------------------------------------------------------------------
\* C23: a component that has been unmounted issues no further invocation: a
\* getPicklistValues invocation is issued by a run of FilterBar's effect only
\* while that run has not been cleaned up.
C23_NoInvocationAfterUnmount ==
    ui.invoked.by = "bar" => ~ui.effects[ui.invoked.run].cancelled

\* C24: whenever App shows an error message (credentials not configured,
\* login failed, metadata load failed), the view it renders holds the
\* "Retry Connection" button.
C24_ErrorOffersRetry ==
    ErrorShown(ui.app) => "Retry Connection" \in Buttons(ui.app)

\* C31: App invokes loginToSalesforce only in the step that resumes from an
\* answer of checkSalesforceConnection saying the credentials are configured;
\* ObjectBrowser is mounted only while connected is true, the metadata is
\* loaded and has an entry for the active tab, which is the object type it
\* queries; so every querySalesforce of the front end names an object type of
\* OBJECT_CONFIG and is issued while connected is true.
C31_GatedInvocations ==
    /\ [](LET a == ui.app
              b == ui.browser IN
          /\ b.mounted =>
                /\ a.connected = "true"
                /\ a.metadata # {}
                /\ a.activeTab \in a.metadata
                /\ b.objectType = a.activeTab
          /\ \A t \in Tasks :
                ui.calls[t].resolver = "querySalesforce" =>
                    ui.calls[t].objectType \in DOMAIN OBJECT_CONFIG
          /\ ui.invoked.resolver = "querySalesforce" =>
                b.mounted /\ a.connected = "true")
    /\ [][ui'.invoked.resolver = "loginToSalesforce" =>
            \E t \in Tasks :
                /\ ui.calls[t].resolver = "checkSalesforceConnection"
                /\ ui.calls[t].outcome = "connected"
                /\ ui'.calls[t].resolver # "checkSalesforceConnection"]_vars

\* After a login that followed the check, the tab was changed and the new
\* ObjectBrowser queries its object type.
C31_Witness ==
    /\ ui.invoked.resolver = "querySalesforce"
    /\ ui.browser.mounted
    /\ ui.browser.objectType = "Contact"
    /\ ui.app.connected = "true"

====
